---- MODULE Spec2Model ----
(***************************************************************************)
(* Concurrent extraction-and-reconciliation engine of ca_fire_pipeline.    *)
(*                                                                         *)
(* The Store (MongoDB collections section_contents, code_architectures,    *)
(* processing_checkpoints) is shared state; every call of                  *)
(* ConcurrentContentExtractor.extract is a process with its own frame.     *)
(* ConcurrentFirecrawlService.batch_scrape_concurrent is modelled on its   *)
(* own (thread pool, futures, results_dict).                               *)
(***************************************************************************)
EXTENDS Integers, Sequences, FiniteSets, TLC

(* ------------------------------ bounds --------------------------------- *)
NumSections == 4
MaxRuns == 3
NumUrls == 3
MaxWorkers == 3
MaxAttempts == 2
MaxMissing == 2
MaxLogged == 2
MaxRetries == 2
MaxVersions == 4
(* the cap on workers of ConcurrentFirecrawlService.__init__ (50 in the program), *)
(* scaled down so that a configured worker count and a batch can exceed it     *)
WorkerCap == 2

BatchSize == 2
MaxGatewayRetries == 3
NumCallers == 3
MaxUpserts == 5

Procs == {1, 2}
Sections == 1..NumSections
None == "none"

(* What the live site and the Fetch Gateway give for a section's URL:      *)
(* "fail"  - scrape_url_with_retry returns success = False;                *)
(* "empty" - a page from which extract_section_content returns ("", None); *)
(* "multi" - a page ContentParser.is_multi_version recognises;             *)
(* "p1"    - a single-version page with text and a legislative history;    *)
(* "p2"    - a single-version page with another text and no history line.  *)
PageKinds == {"fail", "empty", "multi", "p1", "p2"}

Success(page) == page # "fail"

IsMultiVersion(page) == page = "multi"

Content(page) == IF page = "p1" THEN "c1" ELSE IF page = "p2" THEN "c2" ELSE None

History(page) == IF page = "p1" THEN "h1" ELSE None

(* ------------------------------ Store ---------------------------------- *)
(* A Section document as Stage 1 leaves it: SectionCreate has no           *)
(* has_content / raw_content field, so they are missing (None);            *)
(* versions = <<>> stands for versions = null.                             *)
NewSection ==
    [content |-> None, raw_content |-> None, has_content |-> None,
     legislative_history |-> None, is_multi_version |-> FALSE, versions |-> <<>>]

(* SectionUpdate: the fields left None are not part of the update.         *)
NoUpdate ==
    [content |-> None, raw_content |-> None, has_content |-> None,
     legislative_history |-> None, is_multi_version |-> None, versions |-> <<>>]

(* extract, lines 177-180: SectionUpdate(is_multi_version=True, url=...)   *)
MultiFlagUpdate == [NoUpdate EXCEPT !.is_multi_version = "true"]

(* extract, lines 196-210: the full single-version update                  *)
SingleUpdate(content, legislative_history) ==
    [NoUpdate EXCEPT !.content = content, !.raw_content = content,
                     !.legislative_history = legislative_history,
                     !.has_content = "true", !.is_multi_version = "false"]

ApplyUpdate_Additive(doc, update) ==
    [content |-> IF update.content = None THEN doc.content
                 ELSE IF doc.content = None THEN update.content ELSE "appended",
     raw_content |->
         IF update.raw_content # None THEN update.raw_content ELSE doc.raw_content,
     has_content |->
         IF update.has_content # None THEN update.has_content ELSE doc.has_content,
     legislative_history |->
         IF update.legislative_history # None THEN update.legislative_history
         ELSE doc.legislative_history,
     is_multi_version |->
         IF update.is_multi_version # None THEN update.is_multi_version = "true"
         ELSE doc.is_multi_version,
     versions |-> IF update.versions # <<>> THEN update.versions ELSE doc.versions]

(* update_section: $set of the fields of the update that are not None      *)
ApplyUpdate(doc, update) ==
    [content |-> IF update.content # None THEN update.content ELSE doc.content,
     raw_content |->
         IF update.raw_content # None THEN update.raw_content ELSE doc.raw_content,
     has_content |->
         IF update.has_content # None THEN update.has_content ELSE doc.has_content,
     legislative_history |->
         IF update.legislative_history # None THEN update.legislative_history
         ELSE doc.legislative_history,
     is_multi_version |->
         IF update.is_multi_version # None THEN update.is_multi_version = "true"
         ELSE doc.is_multi_version,
     versions |-> IF update.versions # <<>> THEN update.versions ELSE doc.versions]

NewCode ==
    [stage2_started |-> FALSE, stage2_completed |-> FALSE,
     stage3_started |-> FALSE, stage3_completed |-> FALSE,
     single_version_count |-> 0, multi_version_count |-> 0, processed_sections |-> 0]

TotalBatches(total_sections) == (total_sections + BatchSize - 1) \div BatchSize

(* ProcessingCheckpoint(code, stage, total_sections, total_batches, ...)   *)
NewCheckpoint(total_sections) ==
    [status |-> "in_progress", total_sections |-> total_sections,
     total_batches |-> TotalBatches(total_sections),
     processed_sections |-> 0, failed_sections |-> <<>>, current_batch |-> 0]

ActiveStatus == {"in_progress", "paused"}

VARIABLES
    page,          \* Sections -> PageKinds: what a fetch of the section's URL gives
    sections,      \* section_contents: Sections -> Section document
    codeRec,       \* code_architectures: the Code document
    checkpoints,   \* processing_checkpoints: documents in insertion order
    ex,            \* Procs -> frame of an extract call
    log,           \* Procs -> what the call did so far (observation only)
    prev,          \* summary of the extract call that ended last (observation only)
    runs,          \* number of extract calls started
    pool,          \* state of one batch_scrape_concurrent call
    ledger,        \* failed_sections: the FailedSection documents in insertion order
    rt,            \* frame of a retry_failed_section call
    fv,            \* frame of a fetch_all_versions call
    proc,          \* the process_code_complete process: its flag, position and exit code
    rec,           \* frame of a reconcile_code call
    gw,            \* frame of one Fetch Gateway call (scrape with retry)
    ra,            \* frame of a retry_all_failed_sections call
    up             \* the documents of one (code, section) key and the upsert calls on it

vars == <<page, sections, codeRec, checkpoints, ex, log, prev, runs, pool, ledger,
          proc, rec, rt, fv, gw, ra, up>>

(* ------------------------ FailureLogger.log_failure -------------------- *)
(* FailedSection(..., retry_status=PENDING) with the defaults of the model:  *)
(* attempt_number 1, retry_count 0, retry_attempts [], resolved_at None      *)
(* (resolved_at is 0 for None and k for the k-th timestamp written to it)    *)
NewFailedSection(section) ==
    [section |-> section, retry_status |-> "pending", attempt_number |-> 1,
     retry_count |-> 0, retry_attempts |-> <<>>, resolved_at |-> 0]

(* the documents of failed_sections a filter {code, section} matches *)
Entries(led, section) == {k \in DOMAIN led : led[k].section = section}

(* find_one and update_one act on the first document the filter matches *)
FirstEntry(led, section) ==
    CHOOSE k \in Entries(led, section) : \A j \in Entries(led, section) : k <= j

LedgerKeys(led) == {led[k].section : k \in DOMAIN led}

LogFailure_AlwaysInserts(led, section) == Append(led, NewFailedSection(section))

(* log_failure, lines 69-93: find_one; when a document exists, $set          *)
(* retry_status PENDING and $inc attempt_number; otherwise insert_one        *)
LogFailure(led, section) ==
    IF Entries(led, section) # {}
    THEN [led EXCEPT ![FirstEntry(led, section)] =
             [@ EXCEPT !.retry_status = "pending", !.attempt_number = @ + 1]]
    ELSE Append(led, NewFailedSection(section))

(* the elements of a set of sections in ascending order *)
RECURSIVE Ascending(_)
Ascending(S) ==
    IF S = {} THEN <<>>
    ELSE LET m == CHOOSE x \in S : \A y \in S : x <= y
         IN  <<m>> \o Ascending(S \ {m})

(* the loops of process_code_complete, lines 217-228 and 255-268: one        *)
(* log_failure call for each failed section                                  *)
RECURSIVE LogFailures(_, _)
LogFailures(led, failed) ==
    IF failed = <<>> THEN led
    ELSE LogFailures(LogFailure(led, Head(failed)), Tail(failed))

storeVars == <<sections, codeRec, checkpoints>>

(* ------------------- ConcurrentContentExtractor.extract ---------------- *)
NoCheckpoint ==
    [present |-> FALSE, processed_sections |-> 0, failed_sections |-> <<>>,
     current_batch |-> 0]

IdleFrame ==
    [pc |-> "idle", skip_multi_version |-> FALSE, checkpoint |-> NoCheckpoint,
     single_version_count |-> 0, multi_version_count |-> 0, failed_sections |-> <<>>,
     processed |-> 0, batch_num |-> 0, results |-> <<>>, j |-> 0,
     total_sections |-> 0]

EmptyLog ==
    [fetchLog |-> <<>>, handled |-> {}, touched |-> {}, threw |-> {},
     updateErr |-> FALSE, saveErr |-> FALSE, resumed |-> FALSE, fresh |-> FALSE,
     progress |-> <<>>]

NoPrev ==
    [ended |-> "none", resumed |-> FALSE, fresh |-> FALSE, handled |-> {},
     batch_num |-> 0, failed_count |-> 0, snap |-> [s \in Sections |-> NewSection],
     failed |-> {}]

(* get_sections_by_code: the code's sections in the Store's order *)
SectionList == [k \in 1..NumSections |-> k]

(* batch = sections[i:i + self.batch_size], with i = (batch_num - 1) * batch_size *)
Batch(batch_num) ==
    LET i == (batch_num - 1) * BatchSize
    IN  SubSeq(SectionList, i + 1,
               IF i + BatchSize < NumSections THEN i + BatchSize ELSE NumSections)

Range(seq) == {seq[k] : k \in DOMAIN seq}

(* documents of processing_checkpoints with status in_progress or paused *)
ActiveCheckpoints == {k \in DOMAIN checkpoints : checkpoints[k].status \in ActiveStatus}

(* lines 71-108: read the sections, mark stage 2 started *)
ExtractStart(p, enable_checkpointing, skip_multi_version) ==
    /\ ex[p].pc = "idle"
    /\ runs < MaxRuns
    /\ runs' = runs + 1
    /\ codeRec' = [codeRec EXCEPT !.stage2_started = TRUE]
    /\ ex' = [ex EXCEPT ![p] =
                 [IdleFrame EXCEPT
                    !.pc = IF enable_checkpointing THEN "find_checkpoint" ELSE "loop",
                    !.skip_multi_version = skip_multi_version,
                    !.total_sections = NumSections,
                    !.batch_num = 1]]
    /\ log' = [log EXCEPT ![p] = [EmptyLog EXCEPT !.fresh = ~enable_checkpointing]]
    /\ UNCHANGED <<gw, ra, up, fv, rt, proc, rec, ledger, page, sections, checkpoints, prev, pool>>

ExtractNoSections_MarksStarted(p) ==
    /\ ex[p].pc = "idle"
    /\ runs < MaxRuns
    /\ runs' = runs + 1
    /\ codeRec' = [codeRec EXCEPT !.stage2_started = TRUE]
    /\ ex' = [ex EXCEPT ![p] = [IdleFrame EXCEPT !.pc = "done"]]
    /\ log' = [log EXCEPT ![p] = EmptyLog]
    /\ UNCHANGED <<gw, ra, up, fv, rt, proc, rec, ledger, page, sections, checkpoints, prev, pool>>

(* lines 71-104, extract called for a code of which the Store holds no       *)
(* section: get_sections_by_code gives an empty list and the call returns    *)
(* the zero result before update_code and before the checkpoint              *)
ExtractNoSections(p) ==
    /\ ex[p].pc = "idle"
    /\ runs < MaxRuns
    /\ runs' = runs + 1
    /\ ex' = [ex EXCEPT ![p] = [IdleFrame EXCEPT !.pc = "done"]]
    /\ log' = [log EXCEPT ![p] = EmptyLog]
    /\ UNCHANGED <<gw, ra, up, fv, rt, proc, rec, ledger, page, storeVars, prev, pool>>

(* _get_or_create_checkpoint, lines 288-297: find_one on an active checkpoint; *)
(* lines 117-120: processed starts from the loaded checkpoint, the counters   *)
(* and failed_sections start empty                                            *)
FindCheckpoint(p) ==
    /\ ex[p].pc = "find_checkpoint"
    /\ IF ActiveCheckpoints # {}
       THEN \E k \in ActiveCheckpoints :
              /\ ex' = [ex EXCEPT ![p].pc = "loop",
                                  ![p].checkpoint =
                                      [present |-> TRUE,
                                       processed_sections |-> checkpoints[k].processed_sections,
                                       failed_sections |-> checkpoints[k].failed_sections,
                                       current_batch |-> checkpoints[k].current_batch],
                                  ![p].processed = checkpoints[k].processed_sections]
              /\ log' = [log EXCEPT ![p].resumed = TRUE]
       ELSE /\ ex' = [ex EXCEPT ![p].pc = "create_checkpoint"]
            /\ log' = log
    /\ UNCHANGED <<gw, ra, up, fv, rt, proc, rec, ledger, page, storeVars, prev, runs, pool>>

(* _get_or_create_checkpoint, lines 299-314: insert_one of a new checkpoint *)
CreateCheckpoint(p) ==
    /\ ex[p].pc = "create_checkpoint"
    /\ checkpoints' = Append(checkpoints, NewCheckpoint(NumSections))
    /\ ex' = [ex EXCEPT ![p].pc = "loop",
                        ![p].checkpoint = [NoCheckpoint EXCEPT !.present = TRUE]]
    /\ log' = [log EXCEPT ![p].fresh = TRUE]
    /\ UNCHANGED <<gw, ra, up, fv, rt, proc, rec, ledger, page, sections, codeRec, prev, runs, pool>>

SkipCondition_OffByOne(checkpoint, batch_num) ==
    checkpoint.present /\ batch_num < checkpoint.current_batch

(* lines 126-129: the batch was already processed according to the checkpoint *)
SkipCondition(checkpoint, batch_num) ==
    checkpoint.present /\ batch_num <= checkpoint.current_batch

SkipBatch(p) ==
    /\ ex[p].pc = "loop"
    /\ ex[p].batch_num <= TotalBatches(NumSections)
    /\ SkipCondition(ex[p].checkpoint, ex[p].batch_num)
    /\ ex' = [ex EXCEPT ![p].batch_num = @ + 1]
    /\ UNCHANGED <<gw, ra, up, fv, rt, proc, rec, ledger, page, storeVars, log, prev, runs, pool>>

BatchFailed_Propagates(frame) == [frame EXCEPT !.pc = "raised"]

(* lines 225-229: the batch-level scrape call threw *)
BatchFailed(frame) ==
    [frame EXCEPT !.failed_sections = @ \o Batch(frame.batch_num),
                  !.processed = @ + Len(Batch(frame.batch_num)),
                  !.pc = "save"]

(* lines 146-151: batch_scrape_concurrent over the batch's URLs; its result *)
(* list is in the order of the URLs                                         *)
BatchScrape(p, throws) ==
    /\ ex[p].pc = "loop"
    /\ ex[p].batch_num <= TotalBatches(NumSections)
    /\ ~SkipCondition(ex[p].checkpoint, ex[p].batch_num)
    /\ IF throws
         THEN /\ ex' = [ex EXCEPT ![p] = BatchFailed(ex[p])]
              /\ log' = [log EXCEPT ![p].fetchLog = Append(@, ex[p].batch_num),
                                    ![p].threw = @ \cup {ex[p].batch_num},
                                    ![p].handled = @ \cup Range(Batch(ex[p].batch_num))]
         ELSE /\ ex' = [ex EXCEPT ![p].results =
                                      [k \in DOMAIN Batch(ex[p].batch_num) |->
                                          page[Batch(ex[p].batch_num)[k]]],
                                  ![p].j = 1,
                                  ![p].pc = "items"]
              /\ log' = [log EXCEPT ![p].fetchLog = Append(@, ex[p].batch_num)]
    /\ UNCHANGED <<gw, ra, up, fv, rt, proc, rec, ledger, page, storeVars, prev, runs, pool>>

(* lines 159-215: the update_section call made for one result, if any *)
ItemUpdate(result, skip_multi_version) ==
    IF ~Success(result) THEN NoUpdate
    ELSE IF IsMultiVersion(result)
         THEN (IF skip_multi_version THEN NoUpdate ELSE MultiFlagUpdate)
         ELSE IF Content(result) # None
              THEN SingleUpdate(Content(result), History(result))
              ELSE NoUpdate

ItemFrame_DropsFailure(frame, section, result, store_ok) ==
    [frame EXCEPT
       !.processed = @ + 1,
       !.single_version_count =
           IF Success(result) /\ ~IsMultiVersion(result) THEN @ + 1 ELSE @,
       !.multi_version_count = IF Success(result) /\ IsMultiVersion(result) THEN @ + 1 ELSE @,
       !.failed_sections =
           IF Success(result) /\ ~IsMultiVersion(result) /\ Content(result) = None
           THEN Append(@, section) ELSE @,
       !.j = @ + 1,
       !.pc = IF frame.j = Len(frame.results) THEN "save" ELSE "items"]

(* lines 154-219: counters and failed_sections after one result; store_ok = *)
(* FALSE when update_section raises, which the handler of line 217 catches  *)
ItemFrame(frame, section, result, store_ok) ==
    LET update == ItemUpdate(result, frame.skip_multi_version)
        raised == update # NoUpdate /\ ~store_ok
        single == Success(result) /\ ~IsMultiVersion(result) /\ Content(result) # None
        multi == Success(result) /\ IsMultiVersion(result)
    IN  [frame EXCEPT
           !.processed = @ + 1,
           !.single_version_count = IF single THEN @ + 1 ELSE @,
           !.multi_version_count = IF multi THEN @ + 1 ELSE @,
           !.failed_sections =
               IF raised \/ ~(single \/ multi) THEN Append(@, section) ELSE @,
           !.j = @ + 1,
           !.pc = IF frame.j = Len(frame.results) THEN "save" ELSE "items"]

(* lines 159-164 and 221-223: the continue of an invalid result leaves the   *)
(* loop body before the progress callback; every other path reaches it       *)
CallbackReached(result) == Success(result)

ProcessItem(p, store_ok) ==
    /\ ex[p].pc = "items"
    /\ LET section == Batch(ex[p].batch_num)[ex[p].j]
           result == ex[p].results[ex[p].j]
           update == ItemUpdate(result, ex[p].skip_multi_version)
       IN    /\ update = NoUpdate => store_ok
             /\ ex' = [ex EXCEPT ![p] = ItemFrame(ex[p], section, result, store_ok)]
             /\ sections' = IF store_ok
                            THEN [sections EXCEPT ![section] = ApplyUpdate(@, update)]
                            ELSE sections
             /\ log' = [log EXCEPT
                          ![p].handled = @ \cup {section},
                          ![p].touched = IF update # NoUpdate /\ store_ok
                                         THEN @ \cup {section} ELSE @,
                          ![p].updateErr = @ \/ ~store_ok,
                          ![p].progress = IF CallbackReached(result)
                                          THEN Append(@, ex[p].processed + 1) ELSE @]
    /\ UNCHANGED <<gw, ra, up, fv, rt, proc, rec, ledger, page, codeRec, checkpoints, prev, runs, pool>>

(* _save_checkpoint: the $set of CheckpointUpdate(current_batch, processed, failed) *)
CheckpointSaved(doc, current_batch, processed, failed) ==
    [doc EXCEPT !.current_batch = current_batch,
                !.processed_sections = processed,
                !.failed_sections = failed]

(* lines 231-233, 316-338: update_one with the filter {code, stage}; it     *)
(* updates one of the documents that match, and every checkpoint of this     *)
(* code and stage matches.  A Store that cannot be reached raises.           *)
SaveCheckpoint(p, store_ok) ==
    /\ ex[p].pc = "save"
    /\ ex[p].checkpoint.present \/ store_ok
    /\ IF ex[p].checkpoint.present
       THEN   IF store_ok
              THEN /\ \E k \in DOMAIN checkpoints :
                        checkpoints' =
                            [checkpoints EXCEPT ![k] =
                                CheckpointSaved(@, ex[p].batch_num, ex[p].processed,
                                                ex[p].failed_sections)]
                   /\ ex' = [ex EXCEPT ![p].pc = "loop", ![p].batch_num = @ + 1]
              ELSE /\ ex' = [ex EXCEPT ![p].pc = "raised"]
                   /\ checkpoints' = checkpoints
       ELSE /\ ex' = [ex EXCEPT ![p].pc = "loop", ![p].batch_num = @ + 1]
            /\ checkpoints' = checkpoints
    /\ log' = [log EXCEPT ![p].saveErr = ~store_ok]
    /\ UNCHANGED <<gw, ra, up, fv, rt, proc, rec, ledger, page, sections, codeRec, prev, runs, pool>>

(* lines 235-246: update_code marks stage 2 completed *)
Finish(p) ==
    /\ ex[p].pc = "loop"
    /\ ex[p].batch_num > TotalBatches(NumSections)
    /\ codeRec' = [codeRec EXCEPT
                     !.single_version_count = ex[p].single_version_count,
                     !.multi_version_count = ex[p].multi_version_count,
                     !.processed_sections = ex[p].processed,
                     !.stage2_completed = TRUE]
    /\ ex' = [ex EXCEPT ![p].pc =
                 IF ex[p].checkpoint.present THEN "complete_checkpoint" ELSE "done"]
    /\ UNCHANGED <<gw, ra, up, fv, rt, proc, rec, ledger, page, sections, checkpoints, log, prev, runs, pool>>

(* _complete_checkpoint, lines 340-358: update_one with the filter {code, stage} *)
CompleteCheckpoint(p) ==
    /\ ex[p].pc = "complete_checkpoint"
    /\ \E k \in DOMAIN checkpoints :
         checkpoints' = [checkpoints EXCEPT ![k].status = "completed"]
    /\ ex' = [ex EXCEPT ![p].pc = "done"]
    /\ UNCHANGED <<gw, ra, up, fv, rt, proc, rec, ledger, page, sections, codeRec, log, prev, runs, pool>>

Summary(p, ended) ==
    [ended |-> ended, resumed |-> log[p].resumed, fresh |-> log[p].fresh,
     handled |-> log[p].handled, batch_num |-> ex[p].batch_num,
     failed_count |-> Len(ex[p].failed_sections), snap |-> sections,
     failed |-> Range(ex[p].failed_sections)]

(* line 274: extract returns its result; or the exception leaves extract *)
Return(p) ==
    /\ ex[p].pc \in {"done", "raised"}
    /\ prev' = Summary(p, IF ex[p].pc = "done" THEN "returned" ELSE "raised")
    /\ ex' = [ex EXCEPT ![p] = IdleFrame]
    /\ log' = [log EXCEPT ![p] = EmptyLog]
    /\ UNCHANGED <<gw, ra, up, fv, rt, proc, rec, ledger, page, storeVars, runs, pool>>

(* the process dies in the middle of extract: its frame is lost, the Store stays *)
Crash(p) ==
    /\ ex[p].pc \notin {"idle", "done", "raised"}
    /\ prev' = Summary(p, "crashed")
    /\ ex' = [ex EXCEPT ![p] = IdleFrame]
    /\ log' = [log EXCEPT ![p] = EmptyLog]
    /\ UNCHANGED <<gw, ra, up, fv, rt, proc, rec, ledger, page, storeVars, runs, pool>>

(* the records of batch_scrape_concurrent (firecrawl_concurrent.py) *)
NoResult == [success |-> FALSE, url |-> 0, error |-> "absent"]

(* scrape_url_with_retry, lines 68-73 and 92-97 *)
WorkerResult(url, ok) ==
    [success |-> ok, url |-> url, error |-> IF ok THEN None ELSE "scrape failed"]

(* lines 170-174 and 190-194 *)
FailedResult(url, error) == [success |-> FALSE, url |-> url, error |-> error]

IdlePool ==
    [pc |-> "idle", urls |-> <<>>, max_workers |-> 0, workers |-> 0, fut |-> <<>>, res |-> <<>>,
     pending |-> {}, results_dict |-> <<>>, late |-> FALSE, results |-> <<>>]

(* process_code_complete before it starts; shutdown_requested = False (line 47) *)
IdleProc ==
    [pc |-> "idle", shutdown_requested |-> FALSE, signal_batch |-> 0, exit |-> None,
     left_at |-> None, resume |-> FALSE]

(* reconcile_code before it is called: report['attempts'] = [] (line 58);     *)
(* assessed lists the results of _assess_code_completeness in call order;    *)
(* failure_log is the document _log_failures_to_db inserts                   *)
IdleRec ==
    [pc |-> "idle", max_retry_attempts |-> 0, initial_workers |-> 0, min_workers |-> 0,
     current_workers |-> 0, attempt |-> 0, attempts |-> <<>>, assessed |-> <<>>,
     success |-> None, fetches |-> 0, writes |-> 0,
     failure_log |-> [logged |-> FALSE, missing_sections |-> {}]]

(* op names the operation of the Failure Ledger that acted last; update is    *)
(* the $set the retry made on the section, and after_extract tells whether an *)
(* extract call in progress had written the section before it                *)
IdleRetry ==
    [op |-> None, pc |-> "idle", section |-> 0, force |-> FALSE, failure |-> FALSE,
     is_multi_version |-> FALSE, before |-> None, result |-> None,
     fetched |-> FALSE, update |-> NoUpdate, after_extract |-> FALSE]

(* scrape_url_with_retry / FirecrawlService.scrape_url before the call;     *)
(* outcomes lists what the upstream scrape_url did in each attempt            *)
IdleGateway ==
    [pc |-> "idle", service |-> None, max_retries |-> 0, attempt |-> 0,
     outcomes |-> <<>>, last_error |-> None, success |-> FALSE, error |-> None,
     attempts |-> 0]

(* retry_all_failed_sections before the call; before is the ledger as the    *)
(* call found it, selected the list the query gave, queue what is left of    *)
(* it, retried the sections handed to retry_failed_section so far            *)
IdleRetryAll ==
    [pc |-> "idle", max_retries |-> 0, before |-> <<>>, selected |-> <<>>,
     queue |-> <<>>, retried |-> <<>>, total |-> 0, succeeded |-> 0, failed |-> 0]

(* section_contents for one (code, section) key: docs is the number of       *)
(* documents with the key; pc[c] is where the upsert_section call of caller  *)
(* c stands, calls counts the upsert calls started                           *)
IdleUpsert ==
    [docs |-> 0, pc |-> [c \in 1..NumCallers |-> "idle"], calls |-> 0]

(* the Store after Stage 1 and no extract call in progress *)
(* fetch_all_versions before it is called; attempted lists the versions    *)
(* _fetch_single_version was called for, failed those that gave no content  *)
IdleFetch ==
    [pc |-> "idle", descriptions |-> 0, versions |-> <<>>, attempted |-> {},
     failed |-> {}]

InitStore ==
    /\ sections = [s \in Sections |-> NewSection]
    /\ codeRec = NewCode
    /\ checkpoints = <<>>
    /\ ex = [p \in Procs |-> IdleFrame]
    /\ log = [p \in Procs |-> EmptyLog]
    /\ prev = NoPrev
    /\ runs = 0
    /\ pool = IdlePool
    /\ ledger = <<>>
    /\ rt = IdleRetry
    /\ fv = IdleFetch
    /\ gw = IdleGateway
    /\ ra = IdleRetryAll
    /\ up = IdleUpsert
    /\ proc = IdleProc
    /\ rec = IdleRec

(* One extract call on the Store as Stage 1 left it, with every kind of     *)
(* page, a scrape call that may throw and a Store that may fail.  No         *)
(* checkpoint exists before the call, so no batch is skipped.                *)
InitExtract ==
    /\ InitStore
    /\ page \in [Sections -> {"fail", "empty", "multi", "p1"}]

NextExtract ==
    \/ \E enable_checkpointing \in BOOLEAN, skip_multi_version \in BOOLEAN :
         runs = 0 /\ ExtractStart(1, enable_checkpointing, skip_multi_version)
    \/ FindCheckpoint(1)
    \/ CreateCheckpoint(1)
    \/ \E throws \in BOOLEAN : BatchScrape(1, throws)
    \/ \E store_ok \in BOOLEAN : ProcessItem(1, store_ok)
    \/ \E store_ok \in BOOLEAN : SaveCheckpoint(1, store_ok)
    \/ Finish(1)
    \/ CompleteCheckpoint(1)
    \/ Return(1)

SpecExtract == InitExtract /\ [][NextExtract]_vars

(* Checkpointed extract calls of one process, one after the other, any of   *)
(* which may crash; fetches fail for some sections.                         *)
InitResume ==
    /\ InitStore
    /\ page \in [Sections -> {"fail", "p1"}]

NextResume ==
    \/ ExtractStart(1, TRUE, FALSE)
    \/ FindCheckpoint(1)
    \/ CreateCheckpoint(1)
    \/ SkipBatch(1)
    \/ BatchScrape(1, FALSE)
    \/ ProcessItem(1, TRUE)
    \/ SaveCheckpoint(1, TRUE)
    \/ Finish(1)
    \/ CompleteCheckpoint(1)
    \/ Return(1)
    \/ Crash(1)

SpecResume == InitResume /\ [][NextResume]_vars

(* Two extract calls for the same code at the same time. *)
InitRace ==
    /\ InitStore
    /\ page \in [Sections -> {"fail", "p1"}]

NextRace ==
    \E p \in Procs :
      \/ runs < Cardinality(Procs) /\ ExtractStart(p, TRUE, FALSE)
      \/ FindCheckpoint(p)
      \/ CreateCheckpoint(p)
      \/ SkipBatch(p)
      \/ BatchScrape(p, FALSE)
      \/ ProcessItem(p, TRUE)
      \/ SaveCheckpoint(p, TRUE)
      \/ Finish(p)
      \/ CompleteCheckpoint(p)
      \/ Return(p)

SpecRace == InitRace /\ [][NextRace]_vars

(* --------------- ContentExtractor.extract_multi_version_sections ------- *)
(* SectionUpdate(is_multi_version=True, versions=versions), lines 281-284   *)
VersionsUpdate == [MultiFlagUpdate EXCEPT !.versions = <<"v1", "v2">>]

(* get_multi_version_sections: the sections with is_multi_version = true    *)
MultiVersionSections == {s \in Sections : sections[s].is_multi_version}

(* extract_all_versions, multi_version_handler.py lines 33-105: the fetch   *)
(* fails, or the page is single-version, or Playwright is asked for the     *)
(* versions and returns some (s \in fetched) or none                        *)
AllVersionsFound(s, fetched) == IsMultiVersion(page[s]) /\ s \in fetched

(* lines 258-296: the sections Stage 3 reports as failed *)
Stage3Failed(fetched) == {s \in MultiVersionSections : ~AllVersionsFound(s, fetched)}

(* lines 219-334: the Store after Stage 3 *)
Stage3Store(fetched) ==
    /\ sections' = [s \in Sections |->
                      IF s \in MultiVersionSections /\ AllVersionsFound(s, fetched)
                      THEN ApplyUpdate(sections[s], VersionsUpdate)
                      ELSE sections[s]]
    /\ codeRec' = [codeRec EXCEPT
                     !.stage3_started = TRUE,
                     !.stage3_completed = @ \/ MultiVersionSections # {}]

(* Stage 3 called on its own (routers, process_code_with_reconciliation):   *)
(* the failed sections are returned to the caller and only logged as text   *)
ExtractMultiVersionSections(fetched) ==
    /\ \A p \in Procs : ex[p].pc = "idle"
    /\ codeRec.stage2_completed
    /\ Stage3Store(fetched)
    /\ UNCHANGED <<gw, ra, up, fv, rt, proc, rec, page, checkpoints, ex, log, prev, runs, pool, ledger>>

(* process_code_complete, lines 236-268: Stage 3 runs when Stage 2 counted  *)
(* a multi-version section, and its failures are written to the ledger      *)
ProcessCodeStage3(fetched) ==
    /\ \A p \in Procs : ex[p].pc = "idle"
    /\ codeRec.stage2_completed
    /\ codeRec.multi_version_count > 0
    /\ \A s \in Stage3Failed(fetched) :
         \A k \in Entries(ledger, s) : ledger[k].attempt_number < MaxLogged
    /\ Stage3Store(fetched)
    /\ ledger' = LogFailures(ledger, Ascending(Stage3Failed(fetched)))
    /\ UNCHANGED <<gw, ra, up, fv, rt, proc, rec, page, checkpoints, ex, log, prev, runs, pool>>

(* between two operations the site changes what it serves for a section *)
Reclassify(s, kind) ==
    /\ \A p \in Procs : ex[p].pc = "idle"
    /\ runs > 0
    /\ page[s] # kind
    /\ page' = [page EXCEPT ![s] = kind]
    /\ UNCHANGED <<gw, ra, up, fv, rt, proc, rec, storeVars, ex, log, prev, runs, pool, ledger>>

(* ---------------- process_code_complete: Stage 2 and signals ------------ *)
(* lines 100-196: set-up and Stage 1 are over, Stage 2 is about to run *)
PipelineStart ==
    /\ proc.pc = "idle"
    /\ runs = 0
    /\ proc' = [proc EXCEPT !.pc = "stage2"]
    /\ UNCHANGED <<gw, ra, up, fv, rt, page, storeVars, ex, log, prev, runs, pool, ledger, rec>>

(* signal_handler, lines 50-58: SIGINT or SIGTERM sets the flag and nothing  *)
(* else; signal_batch notes the batch extract is at when the signal arrives  *)
SignalHandler ==
    /\ proc.pc \in {"stage2", "stage3"}
    /\ ~proc.shutdown_requested
    /\ proc' = [proc EXCEPT
                  !.shutdown_requested = TRUE,
                  !.signal_batch = IF ex[1].pc \in {"idle", "done"} THEN 0
                                   ELSE ex[1].batch_num]
    /\ UNCHANGED <<gw, ra, up, fv, rt, page, storeVars, ex, log, prev, runs, pool, ledger, rec>>

(* lines 199-204: extractor.extract(code, skip_multi_version=False), with    *)
(* enable_checkpointing=True (lines 191-196)                                 *)
PipelineExtract ==
    /\ proc.pc = "stage2"
    /\ prev.ended = "none"
    /\ ExtractStart(1, TRUE, FALSE)

(* lines 206-232 and main, lines 464-470: extract has returned; its failed   *)
(* sections are written to the ledger; then the flag is looked at: when set, *)
(* _handle_shutdown returns interrupted and main exits with 130              *)
PipelineAfterStage2 ==
    /\ proc.pc = "stage2"
    /\ ex[1].pc = "idle"
    /\ prev.ended = "returned"
    /\ ledger' = LogFailures(ledger, Ascending(prev.failed))
    /\ proc' = IF proc.shutdown_requested
               THEN [proc EXCEPT !.pc = "exited", !.exit = 130, !.left_at = "stage2"]
               ELSE [proc EXCEPT !.pc = "stage3"]
    /\ UNCHANGED <<gw, ra, up, fv, rt, page, storeVars, ex, log, prev, runs, pool, rec>>

(* lines 271-273 and main: the next look at the flag, after Stage 3 *)
PipelineAfterStage3 ==
    /\ proc.pc = "stage3"
    /\ proc.shutdown_requested
    /\ proc' = [proc EXCEPT !.pc = "exited", !.exit = 130, !.left_at = "stage3"]
    /\ UNCHANGED <<gw, ra, up, fv, rt, page, storeVars, ex, log, prev, runs, pool, ledger, rec>>

(* ------------------ ReconciliationService.reconcile_code --------------- *)
(* _assess_code_completeness, lines 142-166: three count_documents calls;   *)
(* a missing has_content field matches neither True nor False               *)
SingleComplete(secs) ==
    Cardinality({s \in Sections : secs[s].has_content = "true" /\ ~secs[s].is_multi_version})

MultiComplete(secs) == Cardinality({s \in Sections : secs[s].versions # <<>>})

AssessCodeCompleteness(secs) ==
    [total |-> NumSections,
     complete |-> SingleComplete(secs) + MultiComplete(secs)]

(* completion_rate >= 100.0 with completion_rate = complete / total * 100 *)
RateIsFull(status) == status.complete * 100 >= status.total * 100

MissingSections_All(secs) == Sections

(* _get_missing_sections, lines 175-185: has_content is False and versions  *)
(* is null or absent                                                        *)
MissingSections(secs) ==
    {s \in Sections : secs[s].has_content = "false" /\ secs[s].versions = <<>>}

(* _retry_missing_sections, lines 226-264: the update made for one result   *)
RetryUpdate(result) ==
    IF ~Success(result) THEN NoUpdate
    ELSE IF IsMultiVersion(result) THEN MultiFlagUpdate
    ELSE IF Content(result) # None THEN SingleUpdate(Content(result), History(result))
    ELSE NoUpdate

(* lines 73-79 *)
ReconcileStart_NoEarlyReturn(max_retry_attempts, initial_workers, min_workers) ==
    /\ rec.pc = "idle"
    /\ rec' = [IdleRec EXCEPT
                 !.pc = "attempt",
                 !.max_retry_attempts = max_retry_attempts,
                 !.initial_workers = initial_workers,
                 !.min_workers = min_workers,
                 !.current_workers = initial_workers,
                 !.attempt = 1,
                 !.assessed = <<AssessCodeCompleteness(sections)>>]
    /\ UNCHANGED <<gw, ra, up, fv, rt, page, storeVars, ex, log, prev, runs, pool, ledger, proc>>

(* lines 55-82: the initial assessment; a code at 100% returns at once *)
ReconcileStart(max_retry_attempts, initial_workers, min_workers) ==
    /\ rec.pc = "idle"
    /\ LET initial_status == AssessCodeCompleteness(sections)
           frame == [IdleRec EXCEPT
                       !.max_retry_attempts = max_retry_attempts,
                       !.initial_workers = initial_workers,
                       !.min_workers = min_workers,
                       !.assessed = <<initial_status>>]
       IN  rec' = IF RateIsFull(initial_status)
                  THEN [frame EXCEPT !.pc = "returned", !.success = "true"]
                  ELSE [frame EXCEPT !.pc = "attempt", !.attempt = 1,
                                     !.current_workers = initial_workers]
    /\ UNCHANGED <<gw, ra, up, fv, rt, page, storeVars, ex, log, prev, runs, pool, ledger, proc>>

NextWorkers_NoFloor(min_workers, current_workers) == current_workers \div 2

(* line 120: current_workers = max(min_workers, current_workers // 2) *)
NextWorkers(min_workers, current_workers) ==
    IF min_workers >= current_workers \div 2 THEN min_workers ELSE current_workers \div 2

(* lines 84-120: one turn of the retry loop; results[s] is what the fetch   *)
(* of the missing section s returns in this attempt                          *)
ReconcileAttempt(results) ==
    /\ rec.pc = "attempt"
    /\ rec.attempt <= rec.max_retry_attempts
    /\ LET missing == MissingSections(sections)
           updated == {s \in missing : RetryUpdate(results[s]) # NoUpdate}
           failed == {s \in missing : ~Success(results[s])}
           after == [s \in Sections |->
                       IF s \in missing THEN ApplyUpdate(sections[s], RetryUpdate(results[s]))
                       ELSE sections[s]]
           current_status == AssessCodeCompleteness(after)
           entry == [attempt |-> rec.attempt, workers |-> rec.current_workers,
                     missing_before |-> Cardinality(missing),
                     success |-> Cardinality(updated), failed |-> Cardinality(failed)]
       IN  IF missing = {}
           THEN /\ rec' = [rec EXCEPT !.pc = "final"]
                /\ sections' = sections
           ELSE /\ sections' = after
                /\ rec' = [rec EXCEPT
                             !.attempts = Append(@, entry),
                             !.assessed = Append(@, current_status),
                             !.fetches = @ + Cardinality(missing),
                             !.writes = @ + Cardinality(updated),
                             !.success = IF RateIsFull(current_status) THEN "true" ELSE @,
                             !.current_workers =
                                 IF RateIsFull(current_status) THEN @
                                 ELSE NextWorkers(rec.min_workers, @),
                             !.attempt = @ + 1,
                             !.pc = IF RateIsFull(current_status)
                                       \/ rec.attempt = rec.max_retry_attempts
                                    THEN "final" ELSE "attempt"]
    /\ UNCHANGED <<gw, ra, up, fv, rt, page, codeRec, checkpoints, ex, log, prev, runs, pool, ledger, proc>>

ReconcileFinish_MarksStages ==
    /\ rec.pc = "final"
    /\ rec' = [rec EXCEPT
                 !.pc = "returned",
                 !.success = IF RateIsFull(AssessCodeCompleteness(sections))
                             THEN "true" ELSE "false"]
    /\ codeRec' = [codeRec EXCEPT !.stage2_completed = TRUE, !.stage3_completed = TRUE]
    /\ UNCHANGED <<gw, ra, up, fv, rt, page, sections, checkpoints, ex, log, prev, runs, pool, ledger, proc>>

(* lines 122-133: report['final_status'] is in the report from line 59 on,   *)
(* so the final assessment of lines 123-125 is never made; when the loop     *)
(* has not set report['success'], reading it in line 128 raises KeyError.    *)
(* _log_failures_to_db, lines 279-311, writes the failure document when      *)
(* success is false and _get_missing_sections still finds sections           *)
ReconcileFinish ==
    /\ rec.pc = "final"
    /\ LET missing == MissingSections(sections)
       IN  rec' = IF rec.success = None
                  THEN [rec EXCEPT !.pc = "raised"]
                  ELSE [rec EXCEPT
                          !.pc = "returned",
                          !.failure_log =
                              IF rec.success = "false" /\ missing # {}
                              THEN [logged |-> TRUE, missing_sections |-> missing]
                              ELSE @]
    /\ UNCHANGED <<gw, ra, up, fv, rt, page, storeVars, ex, log, prev, runs, pool, ledger, proc>>

(* Section documents as the operations on the Store leave them *)
Extracted == ApplyUpdate(NewSection, SingleUpdate("c1", "h1"))

Flagged == ApplyUpdate(NewSection, MultiFlagUpdate)

WithVersions == ApplyUpdate(NewSection, VersionsUpdate)

(* RetryService.mark_as_abandoned, lines 286-298: $set has_content False *)
Abandoned(doc) == [doc EXCEPT !.has_content = "false"]

(* a section with versions that a later extract found single-version *)
Reextracted == ApplyUpdate(WithVersions, SingleUpdate("c1", "h1"))

StoreShapes ==
    <<NewSection, Extracted, Flagged, WithVersions, Abandoned(NewSection),
      Abandoned(Extracted), Reextracted>>

(* ------------------------------ RetryService ---------------------------- *)
(* _update_failure_status, lines 380-405: $set of retry_status; SUCCEEDED    *)
(* and ABANDONED also set retry_count to the count read back plus one;       *)
(* resolved_at is set when the caller passes it                              *)
UpdateFailureStatus(led, section, status, resolved_at) ==
    [led EXCEPT ![FirstEntry(led, section)] =
        [@ EXCEPT !.retry_status = status,
                  !.retry_count = IF status \in {"succeeded", "abandoned"} THEN @ + 1 ELSE @,
                  !.resolved_at = IF resolved_at THEN @ + 1 ELSE @]]

LogRetryAttempt_SkipsSuccess(led, section, success) ==
    IF success THEN led
    ELSE [led EXCEPT ![FirstEntry(led, section)] =
             [@ EXCEPT !.retry_attempts = Append(@, success), !.retry_count = @ + 1]]

(* _log_retry_attempt, lines 407-426: $push of the attempt, $inc retry_count *)
LogRetryAttempt(led, section, success) ==
    [led EXCEPT ![FirstEntry(led, section)] =
        [@ EXCEPT !.retry_attempts = Append(@, success), !.retry_count = @ + 1]]

(* extract_all_versions, multi_version_handler.py lines 33-105: no versions  *)
(* when the scrape fails; one version (whatever its content) when the page   *)
(* is not multi-version; what Playwright returns otherwise                   *)
AllVersions(pg, fetched) ==
    IF ~Success(pg) THEN <<>>
    ELSE IF ~IsMultiVersion(pg) THEN <<"single">>
    ELSE IF fetched THEN <<"v1", "v2">> ELSE <<>>

(* _retry_multi_version, lines 177-211: the $set made when versions is not   *)
(* empty                                                                     *)
RetryMultiVersion(pg, fetched) ==
    IF AllVersions(pg, fetched) = <<>> THEN NoUpdate
    ELSE [NoUpdate EXCEPT !.versions = AllVersions(pg, fetched),
                          !.is_multi_version = "true", !.has_content = "false"]

(* _retry_single_version, lines 121-175: scrape_url returns a dictionary     *)
(* with the keys success, url, data, attempts (or error), so                 *)
(* result.get('markdown') is None and line 132 returns the failure           *)
(* 'No markdown content' for every page                                      *)
RetrySingleVersion(pg) == NoUpdate

(* retry_failed_section, lines 34-83: the look-ups, the early returns (no    *)
(* entry, entry already succeeded, no Section document for the section) and  *)
(* the move of the entry to RETRYING                                         *)
RetryStart(s, force) ==
    /\ rt.pc \in {"idle", "returned"}
    /\ \A k \in Entries(ledger, s) : Len(ledger[k].retry_attempts) < MaxRetries
    /\ LET failure == Entries(ledger, s) # {}
           frame == [IdleRetry EXCEPT !.op = "retry_failed_section",
                                      !.section = s, !.force = force, !.failure = failure,
                                      !.before = IF failure
                                                 THEN ledger[FirstEntry(ledger, s)]
                                                 ELSE None]
       IN  IF ~failure /\ ~force
           THEN /\ rt' = [frame EXCEPT !.pc = "returned", !.result = "no_record"]
                /\ ledger' = ledger
           ELSE IF failure /\ ledger[FirstEntry(ledger, s)].retry_status = "succeeded"
                   /\ ~force
           THEN /\ rt' = [frame EXCEPT !.pc = "returned", !.result = "cached"]
                /\ ledger' = ledger
           ELSE IF s \notin DOMAIN sections
           THEN /\ rt' = [frame EXCEPT !.pc = "returned", !.result = "no_section"]
                /\ ledger' = ledger
           ELSE /\ rt' = [frame EXCEPT !.pc = "extract",
                                       !.is_multi_version = sections[s].is_multi_version]
                /\ ledger' = IF failure
                             THEN UpdateFailureStatus(ledger, s, "retrying", FALSE)
                             ELSE ledger
    /\ UNCHANGED <<gw, up, fv, page, storeVars, ex, log, prev, runs, pool, proc, rec>>

(* lines 82-119: the extraction by the flag read from the section, the       *)
(* attempt record and the final status; fetched is what Playwright gives     *)
RetryExtract(fetched) ==
    /\ rt.pc = "extract"
    /\ LET s == rt.section
           update == IF rt.is_multi_version THEN RetryMultiVersion(page[s], fetched)
                     ELSE RetrySingleVersion(page[s])
           success == update # NoUpdate
           logged == IF rt.failure THEN LogRetryAttempt(ledger, s, success) ELSE ledger
       IN  /\ sections' = [sections EXCEPT ![s] = ApplyUpdate(@, update)]
           /\ ledger' = IF ~rt.failure THEN ledger
                        ELSE IF success
                        THEN UpdateFailureStatus(logged, s, "succeeded", TRUE)
                        ELSE UpdateFailureStatus(logged, s, "failed", FALSE)
           /\ rt' = [rt EXCEPT !.pc = "returned",
                               !.result = IF success THEN "success" ELSE "failed",
                               !.fetched = TRUE,
                               !.update = update,
                               !.after_extract = \E p \in Procs : s \in log[p].touched]
    /\ UNCHANGED <<gw, up, fv, page, codeRec, checkpoints, ex, log, prev, runs, pool, proc, rec>>

(* mark_as_abandoned, lines 269-298: the entry becomes ABANDONED (without an *)
(* entry _update_failure_status raises before anything is written), and the  *)
(* section gets has_content False                                            *)
MarkAsAbandoned(s) ==
    /\ rt.pc \in {"idle", "returned"}
    /\ Entries(ledger, s) # {}
    /\ ledger[FirstEntry(ledger, s)].retry_status # "abandoned"
    /\ ledger' = UpdateFailureStatus(ledger, s, "abandoned", TRUE)
    /\ sections' = [sections EXCEPT ![s] = Abandoned(@)]
    /\ rt' = [IdleRetry EXCEPT !.op = "mark_as_abandoned", !.section = s]
    /\ UNCHANGED <<gw, ra, up, fv, page, codeRec, checkpoints, ex, log, prev, runs, pool, proc, rec>>

(* a log_failure call for one section, as the pipeline makes after a stage   *)
LogFailureCall(s) ==
    /\ rt.pc \in {"idle", "returned"}
    /\ \A k \in Entries(ledger, s) : ledger[k].attempt_number < MaxLogged
    /\ ledger' = LogFailure(ledger, s)
    /\ rt' = [IdleRetry EXCEPT !.op = "log_failure", !.section = s]
    /\ UNCHANGED <<gw, ra, up, fv, page, storeVars, ex, log, prev, runs, pool, proc, rec>>

(* the sections of the entries a find on retry_status PENDING gives, in the  *)
(* order of the collection                                                   *)
PendingList(led) ==
    LET IsPending(entry) == entry.retry_status = "pending"
        found == SelectSeq(led, IsPending)
    IN  [k \in DOMAIN found |-> found[k].section]

(* lines 237-238: the slice [:max_retries], made when max_retries is truthy  *)
Sliced(list, max_retries) ==
    IF max_retries > 0 /\ max_retries < Len(list) THEN SubSeq(list, 1, max_retries)
    ELSE list

(* retry_all_failed_sections, lines 230-247: the query, the slice and the    *)
(* empty summary; max_retries = 0 stands for None; failure_types is None     *)
RetryAllStart(max_retries) ==
    /\ ra.pc \in {"idle", "returned"}
    /\ rt.pc \in {"idle", "returned"}
    /\ \A k \in DOMAIN ledger : Len(ledger[k].retry_attempts) < MaxRetries
    /\ LET failed_sections == Sliced(PendingList(ledger), max_retries)
       IN  ra' = [IdleRetryAll EXCEPT
                    !.pc = IF failed_sections = <<>> THEN "returned" ELSE "loop",
                    !.max_retries = max_retries,
                    !.before = ledger,
                    !.selected = failed_sections,
                    !.queue = failed_sections,
                    !.total = Len(failed_sections)]
    /\ UNCHANGED <<gw, up, fv, rt, page, storeVars, ex, log, prev, runs, pool, ledger,
                   proc, rec>>

(* lines 249-251: retry_failed_section(code, section) for the next entry of  *)
(* the list                                                                  *)
RetryAllCall ==
    /\ ra.pc = "loop"
    /\ RetryStart(Head(ra.queue), FALSE)
    /\ ra' = [ra EXCEPT !.pc = "wait", !.retried = Append(@, Head(ra.queue))]

(* the extraction of the retry_failed_section call in progress *)
RetryAllExtract(fetched) ==
    /\ ra.pc = "wait"
    /\ RetryExtract(fetched)
    /\ UNCHANGED ra

(* lines 253-267: the result of the call is counted; after the last entry    *)
(* the summary is returned                                                   *)
RetryAllCount ==
    /\ ra.pc = "wait"
    /\ rt.pc = "returned"
    /\ ra' = [ra EXCEPT
                 !.succeeded = IF rt.result \in {"success", "cached"} THEN @ + 1 ELSE @,
                 !.failed = IF rt.result \in {"success", "cached"} THEN @ ELSE @ + 1,
                 !.queue = Tail(@),
                 !.pc = IF Tail(ra.queue) = <<>> THEN "returned" ELSE "loop"]
    /\ UNCHANGED <<gw, up, fv, rt, page, storeVars, ex, log, prev, runs, pool, ledger,
                   proc, rec>>

(* ------------- ConcurrentFirecrawlService.batch_scrape_concurrent ------- *)
(* pool.fut[f]: the future submitted for urls[f] ("queued", "running",       *)
(* "done", "raised" or "cancelled"); pool.res[f]: what its worker returned;  *)
(* pool.late: the call is older than twice the timeout.                      *)
Finished == {"done", "raised", "cancelled"}

FutureIndex_Rotated(pl, f) == (f % Len(pl.urls)) + 1

(* future_to_url, lines 130-133: the index under which a future's result is kept *)
FutureIndex(pl, f) == f

(* lines 116-137: submit one future per URL *)
Min(a, b) == IF a <= b THEN a ELSE b

(* __init__, line 31: self.max_workers = min(max_workers, 50) *)
ServiceMaxWorkers(max_workers) == Min(max_workers, WorkerCap)

(* line 119: workers = max_workers or self.max_workers *)
PoolWorkers(max_workers, self_max_workers) ==
    IF max_workers # 0 THEN max_workers ELSE self_max_workers

(* The callers (extract line 148, _retry_missing_sections lines 219-220) build *)
(* the service with their worker count and pass the same count to the call.   *)
ScrapeCall(n, max_workers) ==
    /\ pool.pc = "idle"
    /\ pool' = [IdlePool EXCEPT
                  !.pc = "wait",
                  !.urls = [i \in 1..n |-> i],
                  !.max_workers = max_workers,
                  !.workers = PoolWorkers(max_workers, ServiceMaxWorkers(max_workers)),
                  !.fut = [i \in 1..n |-> "queued"],
                  !.res = [i \in 1..n |-> NoResult],
                  !.pending = 1..n,
                  !.results_dict = [i \in 1..n |-> NoResult]]
    /\ UNCHANGED <<gw, ra, up, fv, rt, proc, rec, ledger, page, storeVars, ex, log, prev, runs>>

Running(pl) == {f \in DOMAIN pl.fut : pl.fut[f] = "running"}

(* ThreadPoolExecutor: a free worker thread takes the oldest queued future *)
WorkerStart(f) ==
    /\ pool.pc = "wait"
    /\ pool.fut[f] = "queued"
    /\ \A g \in DOMAIN pool.fut : pool.fut[g] = "queued" => f <= g
    /\ Cardinality(Running(pool)) < pool.workers
    /\ pool' = [pool EXCEPT !.fut[f] = "running"]
    /\ UNCHANGED <<gw, ra, up, fv, rt, proc, rec, ledger, page, storeVars, ex, log, prev, runs>>

(* scrape_url_with_retry returns a result, or leaves by an exception *)
WorkerFinish(f, outcome) ==
    /\ pool.pc = "wait"
    /\ pool.fut[f] = "running"
    /\ pool' = [pool EXCEPT
                  !.fut[f] = IF outcome = "raise" THEN "raised" ELSE "done",
                  !.res[f] = IF outcome = "raise" THEN NoResult
                             ELSE WorkerResult(pool.urls[f], outcome = "ok")]
    /\ UNCHANGED <<gw, ra, up, fv, rt, proc, rec, ledger, page, storeVars, ex, log, prev, runs>>

(* time passes: the call is now older than 2 * self.timeout.  A free worker *)
(* thread takes a queued future at once, so no time passes while one could.  *)
Late ==
    /\ pool.pc = "wait"
    /\ ~pool.late
    /\ \/ \A f \in DOMAIN pool.fut : pool.fut[f] # "queued"
       \/ Cardinality(Running(pool)) = pool.workers
    /\ pool' = [pool EXCEPT !.late = TRUE]
    /\ UNCHANGED <<gw, ra, up, fv, rt, proc, rec, ledger, page, storeVars, ex, log, prev, runs>>

(* lines 145-175: results_dict after the futures of done were collected *)
RECURSIVE Collect(_, _, _)
Collect(pl, done, results_dict) ==
    IF done = {} THEN results_dict
    ELSE LET f == CHOOSE g \in done : \A h \in done : g <= h
             i == FutureIndex(pl, f)
             r == IF pl.fut[f] = "done" THEN pl.res[f]
                  ELSE FailedResult(pl.urls[f], "future failed")
         IN  Collect(pl, done \ {f},
                     IF i \in DOMAIN results_dict THEN [results_dict EXCEPT ![i] = r]
                     ELSE results_dict)

(* lines 140-196: one turn of the while loop: wait returns the finished      *)
(* futures (possibly none, on a timeout); then, when the call is late, every *)
(* future still pending is cancelled and recorded as a timeout               *)
WaitReturns ==
    /\ pool.pc = "wait"
    /\ pool.pending # {}
    /\ LET done == {f \in pool.pending : pool.fut[f] \in Finished}
           pending == pool.pending \ done
           hung == IF pool.late THEN pending ELSE {}
           collected == Collect(pool, done, pool.results_dict)
       IN  /\ done # {} \/ pool.late
           /\ pool' = [pool EXCEPT
                         !.pending = pending \ hung,
                         !.fut = [f \in DOMAIN pool.fut |->
                                    IF f \in hung /\ pool.fut[f] = "queued"
                                    THEN "cancelled" ELSE pool.fut[f]],
                         !.results_dict =
                             [i \in DOMAIN collected |->
                                IF \E f \in hung : FutureIndex(pool, f) = i
                                THEN FailedResult(
                                       pool.urls[CHOOSE f \in hung : FutureIndex(pool, f) = i],
                                       "Request timeout")
                                ELSE collected[i]]]
    /\ UNCHANGED <<gw, ra, up, fv, rt, proc, rec, ledger, page, storeVars, ex, log, prev, runs>>

(* lines 128, 198-212: leaving the with block waits for the running workers; *)
(* then the results are listed by index                                      *)
ScrapeReturn ==
    /\ pool.pc = "wait"
    /\ pool.pending = {}
    /\ Running(pool) = {}
    /\ pool' = [pool EXCEPT
                  !.pc = "returned",
                  !.results = [i \in DOMAIN pool.urls |->
                                 IF pool.results_dict[i] # NoResult
                                 THEN pool.results_dict[i]
                                 ELSE FailedResult(pool.urls[i], "Unknown error")]]
    /\ UNCHANGED <<gw, ra, up, fv, rt, proc, rec, ledger, page, storeVars, ex, log, prev, runs>>

(* Extract calls that run to their end one after the other, on pages that   *)
(* stay the same and with no failure of the scrape call or of the Store.     *)
(* Only the page of section 1 may be one that gives no content.              *)
InitRerun ==
    /\ InitStore
    /\ page \in {pg \in [Sections -> {"empty", "multi", "p1", "p2"}] :
                   \A s \in Sections : pg[s] = "empty" => s = 1}

NextRerun ==
    \/ \E e \in BOOLEAN, s \in BOOLEAN : ExtractStart(1, e, s)
    \/ FindCheckpoint(1)
    \/ CreateCheckpoint(1)
    \/ SkipBatch(1)
    \/ BatchScrape(1, FALSE)
    \/ ProcessItem(1, TRUE)
    \/ SaveCheckpoint(1, TRUE)
    \/ Finish(1)
    \/ CompleteCheckpoint(1)
    \/ Return(1)

SpecRerun == InitRerun /\ [][NextRerun]_vars

(* Extract calls one after the other, some for the code of the Store and    *)
(* some for a code of which the Store holds no section.                      *)
InitNoSections ==
    /\ InitStore
    /\ page \in [Sections -> {"fail", "p1"}]

NextNoSections ==
    \/ ExtractNoSections(1)
    \/ \E enable_checkpointing \in BOOLEAN : ExtractStart(1, enable_checkpointing, FALSE)
    \/ FindCheckpoint(1)
    \/ CreateCheckpoint(1)
    \/ SkipBatch(1)
    \/ BatchScrape(1, FALSE)
    \/ ProcessItem(1, TRUE)
    \/ SaveCheckpoint(1, TRUE)
    \/ Finish(1)
    \/ CompleteCheckpoint(1)
    \/ Return(1)

SpecNoSections == InitNoSections /\ [][NextNoSections]_vars

(* Stage 2 and Stage 3 in any order, with the classification of a page of   *)
(* the first batch free to change between two operations.                    *)
InitReclassify ==
    /\ InitStore
    /\ page = [s \in Sections |-> IF s = 1 THEN "multi" ELSE "p1"]

NextReclassify ==
    \/ \E s \in BOOLEAN : ExtractStart(1, FALSE, s)
    \/ BatchScrape(1, FALSE)
    \/ ProcessItem(1, TRUE)
    \/ SaveCheckpoint(1, TRUE)
    \/ Finish(1)
    \/ Return(1)
    \/ \E fetched \in {{}, Sections} : ExtractMultiVersionSections(fetched)
    \/ \E fetched \in {{}, Sections} : ProcessCodeStage3(fetched)
    \/ \E s \in Range(Batch(1)), kind \in {"multi", "p1"} : Reclassify(s, kind)

SpecReclassify == InitReclassify /\ [][NextReclassify]_vars

(* ------------- process_code_complete: the whole invocation -------------- *)
(* bulk_upsert_sections, database.py lines 244-277, on the SectionCreate of  *)
(* architecture_crawler.py lines 396-404: $set of content None,              *)
(* legislative_history None, is_multi_version False, versions None           *)
Stage1Upsert(doc) ==
    [doc EXCEPT !.content = None, !.legislative_history = None,
                !.is_multi_version = FALSE, !.versions = <<>>]

(* lines 100-180 of a second invocation, after the process of the first died *)
(* in Stage 2: the clean-up when resume is off, then Stage 1 with            *)
(* save_to_db=True in both cases                                             *)
PipelineRerun(resume) ==
    /\ proc.pc = "stage2"
    /\ prev.ended = "crashed"
    /\ \A p \in Procs : ex[p].pc = "idle"
    /\ proc' = [IdleProc EXCEPT !.pc = "stage2", !.resume = resume]
    /\ sections' = [s \in Sections |->
                      Stage1Upsert(IF resume THEN sections[s] ELSE NewSection)]
    /\ codeRec' = IF resume THEN codeRec ELSE NewCode
    /\ checkpoints' = IF resume THEN checkpoints ELSE <<>>
    /\ ledger' = IF resume THEN ledger ELSE <<>>
    /\ prev' = NoPrev
    /\ rec' = IdleRec
    /\ rt' = IdleRetry
    /\ UNCHANGED <<gw, ra, up, fv, page, ex, log, runs, pool>>

(* lines 234-268: Stage 3 when Stage 2 counted a multi-version section, and  *)
(* its failures written to the ledger                                        *)
PipelineStage3(fetched) ==
    /\ proc.pc = "stage3"
    /\ ~proc.shutdown_requested
    /\ IF codeRec.multi_version_count > 0
       THEN /\ Stage3Store(fetched)
            /\ ledger' = LogFailures(ledger, Ascending(Stage3Failed(fetched)))
       ELSE UNCHANGED <<sections, codeRec, ledger>>
    /\ proc' = [proc EXCEPT !.pc = "reconcile"]
    /\ UNCHANGED <<gw, ra, up, fv, rt, rec, page, checkpoints, ex, log, prev, runs, pool>>

(* lines 279-285: reconcile_code(code, max_retry_attempts, 10, 5) *)
PipelineReconcile ==
    /\ proc.pc = "reconcile"
    /\ ReconcileStart(MaxAttempts, MaxWorkers, 1)

(* the fetches of reconcile_code give what the site serves *)
PipelineReconcileAttempt ==
    /\ proc.pc = "reconcile"
    /\ ReconcileAttempt([s \in MissingSections(sections) |-> page[s]])

(* lines 281-306: an exception of reconcile_code leaves process_code_complete *)
(* and main, and the interpreter exits with 1; otherwise the automatic retry *)
(* runs when it is not switched off, the report says success false and the   *)
(* ledger has an entry                                                       *)
PipelineAfterReconcile(skip_retry) ==
    /\ proc.pc = "reconcile"
    /\ rec.pc \in {"returned", "raised"}
    /\ proc' = IF rec.pc = "raised"
               THEN [proc EXCEPT !.pc = "exited", !.exit = 1, !.left_at = "reconcile"]
               ELSE [proc EXCEPT
                       !.pc = IF ~skip_retry /\ rec.success = "false" /\ Len(ledger) > 0
                              THEN "retry" ELSE "done"]
    /\ UNCHANGED <<gw, ra, up, fv, rt, rec, page, storeVars, ex, log, prev, runs, pool, ledger>>

(* process_code_complete from Stage 2 to the final report; the process may   *)
(* die in Stage 2 and the operator start it again, with resume on or off.    *)
InitPipeline ==
    /\ InitStore
    /\ page \in [Sections -> {"fail", "multi", "p1"}]

NextPipeline ==
    \/ PipelineStart
    \/ PipelineExtract
    \/ FindCheckpoint(1)
    \/ CreateCheckpoint(1)
    \/ SkipBatch(1)
    \/ BatchScrape(1, FALSE)
    \/ ProcessItem(1, TRUE)
    \/ SaveCheckpoint(1, TRUE)
    \/ Finish(1)
    \/ CompleteCheckpoint(1)
    \/ Return(1)
    \/ Crash(1)
    \/ \E resume \in BOOLEAN : PipelineRerun(resume)
    \/ PipelineAfterStage2
    \/ \E fetched \in {{}, Sections} : PipelineStage3(fetched)
    \/ PipelineReconcile
    \/ PipelineReconcileAttempt
    \/ ReconcileFinish
    \/ \E skip_retry \in BOOLEAN : PipelineAfterReconcile(skip_retry)

SpecPipeline == InitPipeline /\ [][NextPipeline]_vars

(* process_code_complete up to the end of Stage 3, with an operator signal  *)
(* arriving at any moment.                                                   *)
InitInterrupt ==
    /\ InitStore
    /\ page \in [Sections -> {"fail", "multi", "p1"}]

NextInterrupt ==
    \/ PipelineStart
    \/ SignalHandler
    \/ PipelineExtract
    \/ FindCheckpoint(1)
    \/ CreateCheckpoint(1)
    \/ BatchScrape(1, FALSE)
    \/ ProcessItem(1, TRUE)
    \/ SaveCheckpoint(1, TRUE)
    \/ Finish(1)
    \/ CompleteCheckpoint(1)
    \/ Return(1)
    \/ PipelineAfterStage2
    \/ PipelineAfterStage3

SpecInterrupt == InitInterrupt /\ [][NextInterrupt]_vars

(* the Code document as the stages leave it: after Stage 1, after a Stage 2  *)
(* run that started, after one that finished, after Stage 3                  *)
CodeRecords ==
    {NewCode,
     [NewCode EXCEPT !.stage2_started = TRUE],
     [NewCode EXCEPT !.stage2_started = TRUE, !.stage2_completed = TRUE,
                     !.processed_sections = NumSections],
     [NewCode EXCEPT !.stage2_started = TRUE, !.stage2_completed = TRUE,
                     !.processed_sections = NumSections,
                     !.stage3_started = TRUE, !.stage3_completed = TRUE]}

(* no operation is in progress; the sections of the Store are set by the caller *)
IdleFrames ==
    /\ ex = [p \in Procs |-> IdleFrame]
    /\ log = [p \in Procs |-> EmptyLog]
    /\ prev = NoPrev
    /\ runs = 0
    /\ pool = IdlePool
    /\ rt = IdleRetry
    /\ fv = IdleFetch
    /\ gw = IdleGateway
    /\ ra = IdleRetryAll
    /\ up = IdleUpsert
    /\ proc = IdleProc
    /\ rec = IdleRec

IdleOperations ==
    /\ IdleFrames
    /\ checkpoints = <<>>
    /\ ledger = <<>>

InitIdle ==
    /\ IdleOperations
    /\ page = [s \in Sections |-> "fail"]
    /\ codeRec = NewCode

(* One reconcile_code call, with the default worker counts scaled down, on a *)
(* Store whose sections are in any of the shapes the operations leave (the   *)
(* order of the sections does not matter to reconcile_code, so the shapes    *)
(* are taken in non-decreasing order), with at most MaxMissing sections      *)
(* marked has_content False.                                                 *)
InitReconcile ==
    /\ InitIdle
    /\ \E shape \in [Sections -> DOMAIN StoreShapes] :
         /\ \A s \in Sections, t \in Sections : s <= t => shape[s] <= shape[t]
         /\ sections = [s \in Sections |-> StoreShapes[shape[s]]]
    /\ Cardinality({s \in Sections : sections[s].has_content = "false"}) <= MaxMissing

(* what a retried fetch can give: a failure, a page without content, a       *)
(* multi-version page, a page with content                                   *)
RetryKinds == <<"fail", "empty", "multi", "p1">>

(* missing sections with equal documents are interchangeable to              *)
(* reconcile_code, so among them the results are taken in non-decreasing     *)
(* order of RetryKinds                                                       *)
NextReconcile ==
    \/ \E max_retry_attempts \in 1..MaxAttempts :
         ReconcileStart(max_retry_attempts, MaxWorkers, 1)
    \/ \E kind \in [MissingSections(sections) -> DOMAIN RetryKinds] :
         /\ \A s \in DOMAIN kind, t \in DOMAIN kind :
              (s <= t /\ sections[s] = sections[t]) => kind[s] <= kind[t]
         /\ ReconcileAttempt([s \in DOMAIN kind |-> RetryKinds[kind[s]]])
    \/ ReconcileFinish

SpecReconcile == InitReconcile /\ [][NextReconcile]_vars

(* One reconcile_code call with every worker setting, on a Store in which    *)
(* every section is found missing and the Code document is as any stage left *)
(* it; a retried fetch fails or gives content.                               *)
InitWorkers ==
    /\ IdleOperations
    /\ page = [s \in Sections |-> "fail"]
    /\ codeRec \in CodeRecords
    /\ sections = [s \in Sections |-> Abandoned(NewSection)]

StepWorkers ==
    \/ \E max_retry_attempts \in 1..MaxAttempts, initial_workers \in 1..MaxWorkers,
          min_workers \in 1..MaxWorkers :
         ReconcileStart(max_retry_attempts, initial_workers, min_workers)
    \/ \E results \in [MissingSections(sections) -> {"fail", "p1"}] :
         ReconcileAttempt(results)
    \/ ReconcileFinish

SpecWorkers == InitWorkers /\ [][StepWorkers]_vars

(* The Failure Ledger and the retry service on one section of a code: the    *)
(* section is as Stage 1 left it or flagged multi-version by Stage 2, and    *)
(* its page fails, is multi-version or is single-version.  The ledger is     *)
(* empty at the start or holds the entry of another section.                 *)
InitLedger ==
    /\ IdleFrames
    /\ codeRec = NewCode
    /\ checkpoints = <<>>
    /\ \E pg \in {"fail", "multi", "p1"} : page = [s \in Sections |-> pg]
    /\ \E doc \in {NewSection, Flagged} :
         sections = [s \in Sections |-> IF s = 1 THEN doc ELSE Extracted]
    /\ ledger \in {<<>>, <<NewFailedSection(NumSections)>>}

NextLedger ==
    \/ LogFailureCall(1)
    \/ \E force \in BOOLEAN : RetryStart(1, force) /\ UNCHANGED ra
    \/ \E fetched \in BOOLEAN : RetryExtract(fetched) /\ UNCHANGED ra
    \/ MarkAsAbandoned(1)

SpecLedger == InitLedger /\ [][NextLedger]_vars

(* a section of which the ledger has an entry and the Store no document:     *)
(* the clean-up of process_code_with_reconciliation.py, lines 98-99, deletes *)
(* the sections of a code and leaves its failed_sections                     *)
GoneSection == NumSections + 1

(* log_failure, mark_as_abandoned and retry_all_failed_sections calls one    *)
(* after the other; sections 1 and 2 are flagged multi-version, section 3 is *)
(* not, and the site serves multi-version pages.                             *)
InitRetryAll ==
    /\ IdleFrames
    /\ codeRec = NewCode
    /\ checkpoints = <<>>
    /\ page = [s \in Sections |-> "multi"]
    /\ sections = [s \in Sections |-> IF s <= 2 THEN Flagged ELSE NewSection]
    /\ ledger = <<>>

NextRetryAll ==
    \/ \E s \in {1, 3, GoneSection} :
         ra.pc \in {"idle", "returned"} /\ LogFailureCall(s)
    \/ ra.pc \in {"idle", "returned"} /\ MarkAsAbandoned(1)
    \/ \E max_retries \in 0..1 : RetryAllStart(max_retries)
    \/ RetryAllCall
    \/ \E fetched \in BOOLEAN : RetryAllExtract(fetched)
    \/ RetryAllCount

SpecRetryAll == InitRetryAll /\ [][NextRetryAll]_vars

(* One extract call and retry_failed_section calls on section 1, in any      *)
(* interleaving; section 1 was flagged multi-version by an earlier run and    *)
(* has a pending entry, and the site serves it as multi-version or not.       *)
InitWriters ==
    /\ IdleFrames
    /\ codeRec = NewCode
    /\ checkpoints = <<>>
    /\ page \in [Sections -> {"multi", "p1"}]
    /\ sections = [s \in Sections |-> IF s = 1 THEN Flagged ELSE NewSection]
    /\ ledger = <<NewFailedSection(1)>>

NextWriters ==
    \/ ExtractStart(1, FALSE, FALSE)
    \/ BatchScrape(1, FALSE)
    \/ ProcessItem(1, TRUE)
    \/ SaveCheckpoint(1, TRUE)
    \/ Finish(1)
    \/ Return(1)
    \/ RetryStart(1, FALSE) /\ UNCHANGED ra
    \/ \E fetched \in BOOLEAN : RetryExtract(fetched) /\ UNCHANGED ra

SpecWriters == InitWriters /\ [][NextWriters]_vars

(* ------------- PlaywrightVersionFetcherSimple.fetch_all_versions -------- *)
(* what one fetch of a version can end in: a page with the text, a page from *)
(* which no text is extracted, an exception (time-out, missing link)         *)
FetchOutcomes == {"ok", "empty", "raise"}

(* _fetch_single_version, lines 104-161: the content and the url it returns; *)
(* the handler of line 159 returns "", None, "" for every exception          *)
FetchSingleVersion(outcome) ==
    [content |-> IF outcome = "ok" THEN "text" ELSE "",
     url |-> IF outcome = "raise" THEN "" ELSE "url"]

(* lines 36-43: the descriptions of the selector page; none (or an           *)
(* exception in _get_version_descriptions) returns the empty list            *)
FetchAllVersionsStart(descriptions) ==
    /\ fv.pc = "idle"
    /\ fv' = [IdleFetch EXCEPT !.pc = IF descriptions = 0 THEN "returned" ELSE "loop",
                               !.descriptions = descriptions]
    /\ UNCHANGED <<gw, ra, up, rt, page, storeVars, ex, log, prev, runs, pool, ledger, proc, rec>>

(* lines 46-71: one turn of the loop over the descriptions; version_data is  *)
(* appended whatever the content                                             *)
FetchAllVersionsStep(outcome) ==
    /\ fv.pc = "loop"
    /\ LET i == Len(fv.versions) + 1
           fetched == FetchSingleVersion(outcome)
       IN  fv' = [fv EXCEPT
                    !.versions = Append(@, [version_number |-> i,
                                            content |-> fetched.content,
                                            is_current |-> (i = 1),
                                            url |-> fetched.url]),
                    !.attempted = @ \cup {i},
                    !.failed = IF fetched.content = "" THEN @ \cup {i} ELSE @,
                    !.pc = IF i = fv.descriptions THEN "returned" ELSE "loop"]
    /\ UNCHANGED <<gw, ra, up, rt, page, storeVars, ex, log, prev, runs, pool, ledger, proc, rec>>

(* One fetch_all_versions call on a selector page that lists up to           *)
(* MaxVersions versions, each fetch ending in any outcome.                   *)
InitVersions ==
    /\ IdleOperations
    /\ page = [s \in Sections |-> "multi"]
    /\ codeRec = NewCode
    /\ sections = [s \in Sections |-> Flagged]

NextVersions ==
    \/ \E descriptions \in 0..MaxVersions : FetchAllVersionsStart(descriptions)
    \/ \E outcome \in FetchOutcomes : FetchAllVersionsStep(outcome)

SpecVersions == InitVersions /\ [][NextVersions]_vars

InitScrape ==
    /\ InitStore
    /\ page = [s \in Sections |-> "p1"]

NextScrape ==
    \/ \E n \in 1..NumUrls, max_workers \in 1..MaxWorkers : ScrapeCall(n, max_workers)
    \/ \E f \in DOMAIN pool.fut : WorkerStart(f)
    \/ \E f \in DOMAIN pool.fut, outcome \in {"ok", "fail", "raise"} : WorkerFinish(f, outcome)
    \/ Late
    \/ WaitReturns
    \/ ScrapeReturn

SpecScrape == InitScrape /\ [][NextScrape]_vars

(* ----------------------- Fetch Gateway: scrape with retry --------------- *)
(* the two gateway functions *)
GatewayServices == {"concurrent", "service"}

(* an exception of the upstream scrape_url, named by the keyword its message *)
(* carries; "api error" is a message with none of the keywords               *)
GatewayErrors ==
    {"ssl", "connection", "timeout", "network", "max retries",
     "expecting value", "json", "parse", "invalid", "rate limit", "api error"}

IsRetriable_Always(service, error) == TRUE

(* firecrawl_concurrent.py lines 78-82 and firecrawl_service.py lines 76-78: *)
(* a keyword of the list is in the lower-cased message                       *)
IsRetriable(service, error) ==
    IF service = "concurrent"
    THEN error \in {"ssl", "connection", "timeout", "network", "max retries",
                    "expecting value", "json", "parse", "invalid", "rate limit"}
    ELSE error \in {"ssl", "connection", "timeout", "network", "max retries"}

(* the call up to the loop; with max_retries = 0 the loop body never runs    *)
(* and the failure of lines 91-97 (86-91) is returned with str(None)         *)
GatewayCall(service, max_retries) ==
    /\ gw.pc = "idle"
    /\ gw' = IF max_retries = 0
             THEN [IdleGateway EXCEPT !.pc = "returned", !.service = service,
                                      !.error = "None"]
             ELSE [IdleGateway EXCEPT !.pc = "loop", !.service = service,
                                      !.max_retries = max_retries]
    /\ UNCHANGED <<ra, up, fv, rt, page, storeVars, ex, log, prev, runs, pool, ledger,
                   proc, rec>>

(* one turn of the loop, lines 59-89 (52-84): the upstream call returns, or  *)
(* raises; the loop goes on when this was not the last turn and the error is *)
(* retriable, and ends with the failure result otherwise                     *)
GatewayAttempt(outcome) ==
    /\ gw.pc = "loop"
    /\ gw' = IF outcome = "ok"
             THEN [gw EXCEPT !.pc = "returned", !.outcomes = Append(@, outcome),
                             !.success = TRUE, !.attempts = gw.attempt + 1]
             ELSE IF gw.attempt < gw.max_retries - 1 /\ IsRetriable(gw.service, outcome)
             THEN [gw EXCEPT !.outcomes = Append(@, outcome), !.last_error = outcome,
                             !.attempt = @ + 1]
             ELSE [gw EXCEPT !.pc = "returned", !.outcomes = Append(@, outcome),
                             !.last_error = outcome, !.error = outcome,
                             !.attempts = gw.max_retries]
    /\ UNCHANGED <<ra, up, fv, rt, page, storeVars, ex, log, prev, runs, pool, ledger,
                   proc, rec>>

(* One gateway call of either function, with every max_retries up to the     *)
(* bound and every sequence of upstream results and errors.                  *)
InitGateway == InitStore /\ page = [s \in Sections |-> "p1"]

NextGateway ==
    \/ \E service \in GatewayServices, max_retries \in 0..MaxGatewayRetries :
         GatewayCall(service, max_retries)
    \/ \E outcome \in GatewayErrors \cup {"ok"} : GatewayAttempt(outcome)

SpecGateway == InitGateway /\ [][NextGateway]_vars

(* -------------- DatabaseManager.upsert_section / bulk_upsert_sections --- *)
Callers == 1..NumCallers

(* upsert_section, line 185: get_section (find_one) tells whether a document *)
(* with the key exists, and the call goes to update_section or to            *)
(* create_section by it                                                      *)
UpsertSectionFind(c) ==
    /\ up.pc[c] = "idle"
    /\ up.calls < MaxUpserts
    /\ up' = [up EXCEPT !.pc[c] = IF up.docs > 0 THEN "update" ELSE "create",
                        !.calls = @ + 1]
    /\ UNCHANGED <<gw, ra, fv, rt, page, storeVars, ex, log, prev, runs, pool, ledger,
                   proc, rec>>

(* lines 187-193: update_section is a find_one_and_update, which changes a   *)
(* document with the key and inserts none; create_section is an insert_one,  *)
(* which the index on (code, section), not being unique, lets through        *)
UpsertSectionWrite(c) ==
    /\ up.pc[c] \in {"update", "create"}
    /\ up' = [up EXCEPT !.pc[c] = "idle",
                        !.docs = IF up.pc[c] = "create" THEN @ + 1 ELSE @]
    /\ UNCHANGED <<gw, ra, fv, rt, page, storeVars, ex, log, prev, runs, pool, ledger,
                   proc, rec>>

(* bulk_upsert_sections, lines 264-275: UpdateOne with upsert=True changes a *)
(* document with the key, or inserts one when there is none                  *)
BulkUpsertSections ==
    /\ up.calls < MaxUpserts
    /\ up' = [up EXCEPT !.docs = IF @ = 0 THEN 1 ELSE @, !.calls = @ + 1]
    /\ UNCHANGED <<gw, ra, fv, rt, page, storeVars, ex, log, prev, runs, pool, ledger,
                   proc, rec>>

(* upsert_section calls of several callers and bulk_upsert_sections calls    *)
(* for one (code, section) key, in any interleaving, on a collection that    *)
(* holds no document with the key at the start.                              *)
InitUpsert == InitStore /\ page = [s \in Sections |-> "p1"]

NextUpsert ==
    \/ \E c \in Callers : UpsertSectionFind(c)
    \/ \E c \in Callers : UpsertSectionWrite(c)
    \/ BulkUpsertSections

SpecUpsert == InitUpsert /\ [][NextUpsert]_vars

(* ------------------------------ properties ----------------------------- *)
SectionsUpTo(b) == UNION {Range(Batch(n)) : n \in 1..b}

(* the call of p has just written the checkpoint of batch b *)
JustSaved(p, b) ==
    /\ ex[p].pc = "loop"
    /\ ex[p].checkpoint.present
    /\ log[p].fetchLog # <<>>
    /\ log[p].fetchLog[Len(log[p].fetchLog)] = b
    /\ ex[p].batch_num = b + 1

(* C3: a call that loaded a checkpoint with current_batch = k fetches the    *)
(* batches k+1, k+2, ... in this order, each once, all of them by the time   *)
(* it returns, and neither processes nor updates a section of batches 1..k.  *)
C3_ResumeSkipsDoneBatches ==
    \A p \in Procs :
      log[p].resumed =>
        LET k == ex[p].checkpoint.current_batch
        IN  /\ log[p].fetchLog = [n \in 1..Len(log[p].fetchLog) |-> k + n]
            /\ ex[p].pc = "done" => Len(log[p].fetchLog) = TotalBatches(NumSections) - k
            /\ (log[p].handled \cup log[p].touched) \cap SectionsUpTo(k) = {}

C3_Witness ==
    \E p \in Procs :
      /\ log[p].resumed
      /\ ex[p].pc = "done"
      /\ ex[p].checkpoint.current_batch >= 1
      /\ log[p].fetchLog # <<>>
      /\ log[p].touched # {}

(* C4: when a call that created the stage's checkpoint crashed and the next   *)
(* call ran to completion, the two calls together processed every section,   *)
(* and the                                                                   *)
(* sections both processed lie in the batch that was in progress at the      *)
(* crash (at most batch_size of them).                                       *)
C4_CrashRedoesAtMostOneBatch ==
    \A p \in Procs :
      (ex[p].pc = "done" /\ prev.ended = "crashed" /\ prev.fresh) =>
        /\ prev.handled \cup log[p].handled = Sections
        /\ Cardinality(prev.handled \cap log[p].handled) <= BatchSize
        /\ prev.handled \cap log[p].handled \subseteq Range(Batch(prev.batch_num))

(* C5: right after the checkpoint write of batch b the active checkpoint     *)
(* has current_batch = b, processed_sections = the sections of batches 1..b  *)
(* and failed_sections = the sections of batches 1..b whose fetch failed.    *)
C5_CheckpointIsCumulative ==
    \A p \in Procs : \A b \in 1..TotalBatches(NumSections) :
      JustSaved(p, b) =>
        \A k \in ActiveCheckpoints :
          /\ checkpoints[k].current_batch = b
          /\ checkpoints[k].processed_sections = Cardinality(SectionsUpTo(b))
          /\ Range(checkpoints[k].failed_sections) =
                 {s \in SectionsUpTo(b) : page[s] \in {"fail", "empty"}}

(* the sections for which the Fetch Gateway gave no successful result in the *)
(* call of p: their fetch failed, or the scrape call of their batch threw    *)
GatewayFailed(p) ==
    {s \in Sections : page[s] = "fail"} \cup UNION {Range(Batch(b)) : b \in log[p].threw}

Occurrences(seq, x) == Cardinality({k \in DOMAIN seq : seq[k] = x})

FreshRunDone(p) ==
    /\ ex[p].pc = "done"
    /\ ~log[p].resumed
    /\ prev.ended = "none"
    /\ ~log[p].updateErr

(* C2: a fresh call in which the gateway fails for the set F and every other *)
(* page is single-version with content returns single_version_count =       *)
(* n - |F|, multi_version_count = 0 and failed_sections = F, and the Store   *)
(* then has exactly the n - |F| other sections with has_content = true.      *)
C2_FreshRunCounts ==
    \A p \in Procs :
      (FreshRunDone(p) /\ \A s \in Sections \ GatewayFailed(p) : Content(page[s]) # None) =>
        /\ ex[p].single_version_count = NumSections - Cardinality(GatewayFailed(p))
        /\ ex[p].multi_version_count = 0
        /\ Range(ex[p].failed_sections) = GatewayFailed(p)
        /\ Len(ex[p].failed_sections) = Cardinality(GatewayFailed(p))
        /\ {s \in Sections : sections[s].has_content = "true"} = Sections \ GatewayFailed(p)

C2_Witness ==
    \E p \in Procs :
      /\ FreshRunDone(p)
      /\ log[p].threw = {}
      /\ \A s \in Sections \ GatewayFailed(p) : Content(page[s]) # None
      /\ Cardinality(GatewayFailed(p)) = 1
      /\ Cardinality({s \in Sections : sections[s].has_content = "true"}) = NumSections - 1

(* C7: extract leaves by an exception only when the Store failed on a        *)
(* checkpoint write; when the scrape call of a batch throws, each section of *)
(* the batch is in failed_sections once, and a call that returns has gone    *)
(* through every batch after the loaded checkpoint.                          *)
C7_ScrapeFailuresAreContained ==
    \A p \in Procs :
      /\ ex[p].pc = "raised" => log[p].saveErr
      /\ \A b \in log[p].threw : \A s \in Range(Batch(b)) :
           Occurrences(ex[p].failed_sections, s) = 1
      /\ ex[p].pc = "done" =>
           log[p].fetchLog = [n \in 1..(TotalBatches(NumSections) - ex[p].checkpoint.current_batch)
                                |-> ex[p].checkpoint.current_batch + n]

C7_Witness ==
    \E p \in Procs :
      /\ ex[p].pc = "done"
      /\ 1 \in log[p].threw
      /\ log[p].fetchLog = <<1, 2>>
      /\ \E s \in Range(Batch(2)) : page[s] = "fail" /\ s \in Range(ex[p].failed_sections)
      /\ \E s \in Range(Batch(2)) : page[s] = "empty" /\ s \in Range(ex[p].failed_sections)

(* C8: a Store failure in update_section ends extract with the exception.    *)
C8_StoreFailureIsFatal ==
    \A p \in Procs : log[p].updateErr => ex[p].pc = "raised"

(* C6: the Store never holds two checkpoints of the code and stage with      *)
(* status in_progress or paused.                                             *)
C6_OneActiveCheckpoint == Cardinality(ActiveCheckpoints) <= 1

(* C1: batch_scrape_concurrent returns one result per URL, and results[i] is *)
(* the result for urls[i]: it carries that URL, it is what the worker of     *)
(* urls[i] returned when the worker was collected, and a failure otherwise.  *)
C1_ResultsInInputOrder ==
    pool.pc = "returned" =>
      /\ Len(pool.results) = Len(pool.urls)
      /\ \A i \in DOMAIN pool.urls :
           /\ pool.results[i].url = pool.urls[i]
           /\ pool.results[i].success => pool.results[i] = pool.res[i]
           /\ (pool.fut[i] = "done" /\ pool.results[i].error # "Request timeout")
                 => pool.results[i] = pool.res[i]

C1_Witness ==
    /\ pool.pc = "returned"
    /\ Len(pool.urls) = NumUrls
    /\ pool.results[1].error = "Request timeout"
    /\ pool.results[2].success
    /\ ~pool.results[NumUrls].success
    /\ pool.fut[NumUrls] = "done"

ContentFields(doc) ==
    [content |-> doc.content, raw_content |-> doc.raw_content,
     has_content |-> doc.has_content, legislative_history |-> doc.legislative_history]

(* C10: when an extract call that handled every section returned with no     *)
(* failed section, a second extract call on the same pages ends with the     *)
(* content fields of every section as the first call left them, and with as  *)
(* many failed sections as the first call.                                   *)
C10_RerunIsIdempotent ==
    (/\ ex[1].pc = "done"
     /\ prev.ended = "returned"
     /\ prev.handled = Sections
     /\ prev.failed_count = 0)
    => /\ \A s \in Sections : ContentFields(sections[s]) = ContentFields(prev.snap[s])
       /\ Len(ex[1].failed_sections) = prev.failed_count

C10_Witness ==
    /\ ex[1].pc = "done"
    /\ prev.ended = "returned"
    /\ prev.handled = Sections
    /\ prev.failed_count = 0
    /\ log[1].handled = Sections
    /\ \E s \in Sections : sections[s].content = "c2"
    /\ \E s \in Sections : sections[s].legislative_history = "h1"
    /\ \E s \in Sections : sections[s].is_multi_version

(* C9: when no operation is in progress, every section with has_content =    *)
(* true has a content and is not multi-version, and every section with       *)
(* is_multi_version = true has versions or an entry in the Failure Ledger.   *)
C9_SectionFlagsConsistent ==
    (\A p \in Procs : ex[p].pc = "idle") =>
      \A s \in Sections :
        /\ sections[s].has_content = "true" =>
             (sections[s].content # None /\ ~sections[s].is_multi_version)
        /\ sections[s].is_multi_version =>
             (sections[s].versions # <<>> \/ s \in LedgerKeys(ledger))

(* C11: the progress callback has been invoked once for every section the    *)
(* call has handled so far (failed fetches and thrown batches included),     *)
(* with processed_count going up by one from call to call and never above    *)
(* total_count.                                                              *)
C11_ProgressAfterEverySection ==
    \A p \in Procs :
      ex[p].pc \in {"loop", "save", "done"} =>
        /\ Len(log[p].progress) = Cardinality(log[p].handled)
        /\ \A k \in 2..Len(log[p].progress) :
             log[p].progress[k] = log[p].progress[k - 1] + 1
        /\ \A k \in DOMAIN log[p].progress : log[p].progress[k] <= NumSections

(* C12: the fetches in flight are at most min(worker count, cap), and when   *)
(* the scrape call of a batch has returned none of its fetches is in flight, *)
(* so that no fetch of the next batch overlaps one of this batch.            *)
C12_InFlightWithinCap ==
    /\ Cardinality(Running(pool)) <= Min(pool.max_workers, WorkerCap)
    /\ pool.pc = "returned" => Running(pool) = {}

(* C13: a fetch recorded as timed out is one that was started (a fetch that  *)
(* never ran is within its timeout), and once every fetch is collected or    *)
(* recorded as timed out no worker of the call is still running, so the call *)
(* returns without waiting for a hung fetch.                                 *)
C13_HungFetchIsReleased ==
    pool.pc = "wait" =>
      /\ \A f \in DOMAIN pool.fut :
           pool.results_dict[f].error = "Request timeout" => pool.fut[f] # "cancelled"
      /\ pool.pending = {} => Running(pool) = {}

(* C14: when a signal arrived while extract was at batch b and Stage 2 is    *)
(* over, the process has exited with code 130, extract handled no section of *)
(* a batch after b, and an active checkpoint records batch b - 1 or b as the *)
(* last finished one.                                                        *)
C14_InterruptStopsStage2 ==
    (proc.signal_batch > 0 /\ proc.pc \in {"exited", "stage3"}) =>
      /\ proc.exit = 130
      /\ prev.handled \subseteq SectionsUpTo(proc.signal_batch)
      /\ \E k \in ActiveCheckpoints :
           checkpoints[k].current_batch \in {proc.signal_batch - 1, proc.signal_batch}

(* C15: a reconcile_code call whose initial assessment is at 100% has        *)
(* returned with no attempt, success true, no fetch, no Store write and no   *)
(* failure document.                                                         *)
C15_CompleteCodeReturnsAtOnce ==
    (rec.pc # "idle" /\ RateIsFull(rec.assessed[1])) =>
      /\ rec.pc = "returned"
      /\ rec.attempts = <<>>
      /\ rec.success = "true"
      /\ rec.fetches = 0
      /\ rec.writes = 0
      /\ ~rec.failure_log.logged

C15_Witness ==
    /\ rec.pc = "returned"
    /\ RateIsFull(rec.assessed[1])
    /\ MissingSections(sections) # {}
    /\ \E s \in Sections : sections[s].has_content = "true"

(* the sections that have neither content nor versions *)
Incomplete(secs) ==
    {s \in Sections : secs[s].has_content # "true" /\ secs[s].versions = <<>>}

(* C16: a reconcile_code call with max_retry_attempts = 2 on a code below    *)
(* 100%, in which every retried fetch failed, returns success false with two *)
(* attempts and a failure document that lists the incomplete sections.       *)
C16_GapNeverCloses ==
    (/\ rec.pc \in {"returned", "raised"}
     /\ rec.max_retry_attempts = 2
     /\ ~RateIsFull(rec.assessed[1])
     /\ \A k \in DOMAIN rec.attempts : rec.attempts[k].failed = rec.attempts[k].missing_before)
    => /\ rec.success = "false"
       /\ Len(rec.attempts) = 2
       /\ rec.failure_log.logged
       /\ rec.failure_log.missing_sections = Incomplete(sections)

C18_WorkersAtLeastMin ==
    \A k \in DOMAIN rec.attempts :
      /\ rec.attempts[k].workers >= rec.min_workers
      /\ rec.attempts[k].workers # 0

(* C19: the completion rates of the successive assessments of one            *)
(* reconcile_code call never go down (complete / total compared exactly).    *)
C19_RateNeverDrops ==
    \A k \in 1..(Len(rec.assessed) - 1) :
      rec.assessed[k].complete * rec.assessed[k + 1].total
        <= rec.assessed[k + 1].complete * rec.assessed[k].total

C19_Witness ==
    /\ Len(rec.assessed) >= 3
    /\ rec.assessed[2].complete > rec.assessed[1].complete
    /\ \E s \in Sections :
         /\ sections[s].is_multi_version
         /\ sections[s].content # None
         /\ sections[s].has_content = "false"

(* C20: when no operation is in progress, the complete count of              *)
(* _assess_code_completeness is the number of sections that have content or  *)
(* versions, each counted once, and is at most the total.                    *)
C20_CompleteCountsSections ==
    (\A p \in Procs : ex[p].pc = "idle") =>
      /\ AssessCodeCompleteness(sections).complete =
           Cardinality({s \in Sections :
                          sections[s].has_content = "true" \/ sections[s].versions # <<>>})
      /\ AssessCodeCompleteness(sections).complete
           <= AssessCodeCompleteness(sections).total

(* C24: a log_failure call for a section without an entry adds one entry    *)
(* with retry_status pending; a call for a section with an entry adds one to *)
(* its attempt_number and sets its retry_status to pending; after the call   *)
(* the ledger holds exactly one entry for the section.                       *)
C24_LogFailureUpserts ==
    [][(rt'.op = "log_failure" /\ ledger' # ledger) =>
         LET s == rt'.section
         IN  /\ Cardinality(Entries(ledger', s)) = 1
             /\ ledger'[FirstEntry(ledger', s)].retry_status = "pending"
             /\ IF Entries(ledger, s) = {}
                THEN /\ Len(ledger') = Len(ledger) + 1
                     /\ ledger'[FirstEntry(ledger', s)].attempt_number = 1
                ELSE /\ Len(ledger') = Len(ledger)
                     /\ ledger'[FirstEntry(ledger, s)].attempt_number =
                          ledger[FirstEntry(ledger, s)].attempt_number + 1]_vars

C24_Witness ==
    /\ rt.op = "log_failure"
    /\ Len(ledger) = 2
    /\ \E k \in Entries(ledger, rt.section) :
         /\ ledger[k].attempt_number = 2
         /\ ledger[k].retry_status = "pending"
         /\ ledger[k].retry_attempts # <<>>

C26_AbandonedIsTerminal ==
    [][\A k \in DOMAIN ledger :
         (/\ ledger[k].retry_status = "abandoned"
          /\ ~(rt'.op = "retry_failed_section" /\ rt'.force))
         => /\ ledger'[k].retry_status = "abandoned"
            /\ ~(rt'.section = ledger[k].section /\ rt'.fetched /\ ~rt.fetched)]_vars

(* C22: no step of a reconcile_code call changes the Code document (stage   *)
(* flags and counts), the checkpoints or the Failure Ledger; it writes       *)
(* Section documents and its own failure document.                           *)
C22_ReconcileLeavesCodeRecord ==
    [][rec' # rec => /\ codeRec' = codeRec
                     /\ checkpoints' = checkpoints
                     /\ ledger' = ledger]_vars

C22_Witness ==
    /\ rec.pc = "returned"
    /\ rec.writes > 0
    /\ Len(rec.attempts) = 2
    /\ codeRec.stage2_completed
    /\ codeRec.stage3_completed

(* C21: after a Stage 2 run has returned, the set _get_missing_sections      *)
(* gives is the set of sections with neither content nor versions, which is  *)
(* the set of sections _assess_code_completeness does not count.             *)
C21_GapSetIsIncompleteSet ==
    (prev.ended = "returned" /\ \A p \in Procs : ex[p].pc = "idle") =>
      /\ MissingSections(sections) = Incomplete(sections)
      /\ MissingSections(sections) =
           {s \in Sections :
              /\ ~(sections[s].has_content = "true" /\ ~sections[s].is_multi_version)
              /\ sections[s].versions = <<>>}

(* Section model, section.py line 27: a document without has_content reads   *)
(* as has_content False                                                      *)
ReadHasContent(doc) == doc.has_content = "true"

(* C28: a Stage 3 step that writes the two versions of a section Stage 2    *)
(* flagged leaves the section with is_multi_version true, two versions and   *)
(* has_content false.                                                        *)
C28_ResolvedSectionShape ==
    [][\A s \in Sections :
         (/\ sections[s].is_multi_version
          /\ sections[s].versions = <<>>
          /\ sections'[s].versions # <<>>)
         => /\ sections'[s].is_multi_version
            /\ Len(sections'[s].versions) = 2
            /\ ~ReadHasContent(sections'[s])]_vars

(* C23: when a process_code_complete invocation has run to its report,       *)
(* every section has a stored content, or versions, or an entry in the       *)
(* Failure Ledger.                                                           *)
C23_NothingSilentlyDropped ==
    proc.pc = "done" =>
      \A s \in Sections :
        \/ sections[s].content # None
        \/ sections[s].versions # <<>>
        \/ s \in LedgerKeys(ledger)

(* C30: when a process_code_complete invocation has run to its report, the   *)
(* Code document has single_version_count + multi_version_count equal to the  *)
(* number of sections Stage 1 found.                                         *)
C30_CountsAddUp ==
    proc.pc = "done" =>
      codeRec.single_version_count + codeRec.multi_version_count = NumSections

AllFields(doc) ==
    [content |-> doc.content, raw_content |-> doc.raw_content,
     has_content |-> doc.has_content, legislative_history |-> doc.legislative_history,
     is_multi_version |-> doc.is_multi_version, versions |-> doc.versions]

(* C27: when the first extract call and the first retry_failed_section call  *)
(* have both written section 1 while the other was in progress, extract      *)
(* writing it as single-version and the retry as multi-version, the content  *)
(* and classification fields of the section are what the later of the two     *)
(* writes alone makes of the section as it was before both.                   *)
C27_LastWriterWins ==
    (/\ runs = 1
     /\ 1 \in log[1].touched
     /\ ItemUpdate(page[1], FALSE).is_multi_version = "false"
     /\ rt.pc = "returned"
     /\ rt.update.is_multi_version = "true"
     /\ rt.before.retry_attempts = <<>>)
    => AllFields(sections[1]) =
         AllFields(ApplyUpdate(Flagged,
                               IF rt.after_extract THEN rt.update
                               ELSE ItemUpdate(page[1], FALSE)))

(* C29: when fetch_all_versions has returned and the fetch of a version gave *)
(* no content, every listed version was attempted, the list holds only       *)
(* versions with content, and it is shorter than the list of the selector    *)
(* page.                                                                     *)
C29_FailedVersionLeavesGap ==
    (fv.pc = "returned" /\ fv.failed # {}) =>
      /\ fv.attempted = 1..fv.descriptions
      /\ \A k \in DOMAIN fv.versions : fv.versions[k].content # ""
      /\ Len(fv.versions) < fv.descriptions

(* C40: a second invocation with resume on, whose Stage 1 saves the sections *)
(* again, leaves content, versions, is_multi_version and has_content of      *)
(* every section as the first invocation stored them.                        *)
C40_Stage1KeepsContent ==
    [][(/\ prev.ended = "crashed"
        /\ prev' = NoPrev
        /\ proc'.resume)
       => \A s \in Sections :
            /\ sections'[s].content = sections[s].content
            /\ sections'[s].versions = sections[s].versions
            /\ sections'[s].is_multi_version = sections[s].is_multi_version
            /\ sections'[s].has_content = sections[s].has_content]_vars

(* C37: when a retry_failed_section call has returned for an entry whose      *)
(* retry_count was the number of its retry_attempts before the call, the     *)
(* retry_count of the entry is the number of its retry_attempts.             *)
C37_RetryCountIsAttempts ==
    (/\ rt.op = "retry_failed_section"
     /\ rt.pc = "returned"
     /\ rt.failure
     /\ rt.before.retry_count = Len(rt.before.retry_attempts))
    => LET e == ledger[FirstEntry(ledger, rt.section)]
       IN  e.retry_count = Len(e.retry_attempts)

(* C36: when an extract call with checkpointing has marked its checkpoint    *)
(* completed and is about to return, no checkpoint of the code and stage is  *)
(* in progress - also when completed checkpoints of earlier calls are in the *)
(* Store.                                                                    *)
C36_CheckpointCompleted ==
    \A p \in Procs :
      (ex[p].pc = "done" /\ ex[p].checkpoint.present) => ActiveCheckpoints = {}

(* C32: a reconcile_code call that has ended has returned (it did not        *)
(* raise), after at most max_retry_attempts attempts, with success true or   *)
(* false in its report.                                                      *)
C32_ReconcileReportsNotRaises ==
    rec.pc \in {"returned", "raised"} =>
      /\ rec.pc = "returned"
      /\ Len(rec.attempts) <= rec.max_retry_attempts
      /\ rec.success \in {"true", "false"}

(* a section _assess_code_completeness counts *)
CountedComplete(doc) ==
    \/ doc.has_content = "true" /\ ~doc.is_multi_version
    \/ doc.versions # <<>>

(* C35: the entry an attempt of reconcile_code appends to the attempts log   *)
(* has success = the number of gap sections the completeness count counts    *)
(* after the attempt, failed = the number of gap sections it does not        *)
(* count, and success + failed = missing_before.                             *)
C35_AttemptCountsMatchMetric ==
    [][Len(rec'.attempts) = Len(rec.attempts) + 1 =>
         LET entry == rec'.attempts[Len(rec'.attempts)]
             gap == MissingSections(sections)
         IN  /\ entry.success = Cardinality({s \in gap : CountedComplete(sections'[s])})
             /\ entry.failed = Cardinality({s \in gap : ~CountedComplete(sections'[s])})
             /\ entry.success + entry.failed = entry.missing_before]_vars

(* C33: an extract call for a code without sections ends with the zero       *)
(* result (no section counted, failed_sections empty), has made no fetch,    *)
(* and has changed neither the Code document nor the checkpoints.            *)
C33_NoSectionsZeroResult ==
    [][\A p \in Procs :
         (ex[p].pc = "idle" /\ ex'[p].pc # "idle" /\ ex'[p].total_sections = 0) =>
           /\ ex'[p].pc = "done"
           /\ ex'[p].single_version_count = 0
           /\ ex'[p].multi_version_count = 0
           /\ ex'[p].failed_sections = <<>>
           /\ log'[p].fetchLog = <<>>
           /\ codeRec' = codeRec
           /\ checkpoints' = checkpoints
           /\ sections' = sections]_vars

C33_Witness ==
    /\ ex[1].pc = "done"
    /\ ex[1].total_sections = 0
    /\ ~codeRec.stage2_started
    /\ checkpoints = <<>>

(* C34: between the batches and at the end of a fresh extract call, every    *)
(* section handled so far is counted once: single_version_count +           *)
(* multi_version_count + len(failed_sections) is the number of sections      *)
(* handled, no section is twice in failed_sections, and processed is at most *)
(* the number of sections - also when update_section raised.                 *)
C34_EachSectionCountedOnce ==
    \A p \in Procs :
      (ex[p].pc \in {"loop", "done"} /\ ~log[p].resumed) =>
        /\ ex[p].single_version_count + ex[p].multi_version_count
              + Len(ex[p].failed_sections) = Cardinality(log[p].handled)
        /\ \A s \in Sections : Occurrences(ex[p].failed_sections, s) <= 1
        /\ ex[p].processed <= ex[p].total_sections

(* the errors the gateway is to retry: connection, time-out, rate-limit and  *)
(* parse errors                                                              *)
TransientErrors ==
    {"ssl", "connection", "timeout", "network", "max retries",
     "expecting value", "json", "parse", "invalid", "rate limit"}

(* C31: a gateway call invokes the upstream fetch at most max_retries times; *)
(* every attempt but the last ended in a transient error the function        *)
(* classifies as retriable; and when the call has returned, success is true  *)
(* exactly when the last attempt succeeded, and otherwise the result carries *)
(* the message of the last error.                                            *)
C31_GatewayRetriesOnlyTransient ==
    /\ Len(gw.outcomes) <= gw.max_retries
    /\ \A k \in 1..(Len(gw.outcomes) - 1) :
         /\ gw.outcomes[k] \in TransientErrors
         /\ IsRetriable(gw.service, gw.outcomes[k])
    /\ gw.pc = "returned" =>
         /\ gw.success <=> (gw.outcomes # <<>> /\ gw.outcomes[Len(gw.outcomes)] = "ok")
         /\ (~gw.success /\ gw.outcomes # <<>>) =>
               /\ gw.error = gw.outcomes[Len(gw.outcomes)]
               /\ \/ Len(gw.outcomes) = gw.max_retries
                  \/ ~IsRetriable(gw.service, gw.error)

C31_Witness ==
    /\ gw.pc = "returned"
    /\ gw.service = "concurrent"
    /\ gw.outcomes = <<"timeout", "rate limit", "api error">>
    /\ ~gw.success
    /\ gw.error = "api error"

(* C39: when upsert_section and bulk_upsert_sections calls for one key have  *)
(* been made and none is in progress, the Store holds exactly one Section    *)
(* document with the key.                                                    *)
C39_OneDocumentPerKey ==
    (up.calls > 0 /\ \A c \in Callers : up.pc[c] = "idle") => up.docs = 1

(* C38: when retry_all_failed_sections returns, it has called                *)
(* retry_failed_section once for each entry that was pending at the start    *)
(* (the first max_retries of them when a limit is given), each of these      *)
(* entries is succeeded or failed, none is left pending or retrying, and     *)
(* succeeded + failed = total.                                               *)
C38_RetryAllSettlesPending ==
    [][(ra.pc # "returned" /\ ra'.pc = "returned") =>
         /\ ra'.retried = Sliced(PendingList(ra'.before), ra'.max_retries)
         /\ \A k \in DOMAIN ra'.retried :
              ledger'[FirstEntry(ledger', ra'.retried[k])].retry_status
                \in {"succeeded", "failed"}
         /\ ra'.succeeded + ra'.failed = ra'.total
         /\ ra'.total = Len(ra'.retried)]_vars

====
